---- MODULE Spec2Model ----
(***************************************************************************)
(* A model of the walrus-messenger server core (crates/server): the        *)
(* session subsystem (login, resolve_session, refresh_session, logout,     *)
(* the per-user session cap) and the chat/membership operations            *)
(* (invite_user, create_private_chat, create_group_chat,                   *)
(* add_members_to_group_chat, send_message, list_messages).                *)
(*                                                                         *)
(* The relational store is PostgreSQL at its default isolation level       *)
(* (READ COMMITTED, which is what sqlx's pool.begin() gives).  The tables  *)
(* hold the committed rows; tx[p] holds the uncommitted writes of the      *)
(* transaction of task p.  A statement sees the committed rows plus the    *)
(* writes of its own transaction; an UPDATE or DELETE of a row another     *)
(* transaction has written waits for that transaction and then looks at    *)
(* the row again; COMMIT makes the writes visible at once; dropping a      *)
(* Transaction without commit rolls it back.  Every .await on a database   *)
(* call is a point where the other task may run, so a handler is a         *)
(* sequence of actions, one per statement.                                 *)
(*                                                                         *)
(* Time is counted in hours.  Random values (uuids, tokens, salts) are     *)
(* fresh numbers drawn from counters.                                      *)
(***************************************************************************)
EXTENDS Integers, Sequences, FiniteSets, TLC

VARIABLES
    users,          \* table users (committed rows)
    chats,          \* table chats
    chats_members,  \* table chats_members
    messages,       \* table messages
    sessions,       \* table sessions
    user_seq,       \* identity sequence of users.id (next value)
    chat_seq,       \* identity sequence of chats.id
    message_seq,    \* identity sequence of messages.id
    nextSid,        \* next uuid gen_random_uuid() returns
    nextTok,        \* next value secure_random_bytes() returns
    now,            \* Utc::now(), in hours
    ticks,          \* how many times the clock has advanced
    pc,             \* pc[p]: where task p is in its handler
    local,          \* local[p]: the handler's local variables
    tx,             \* tx[p]: uncommitted writes of task p's transaction
    last,           \* what the step just taken returned, if it was a one-statement call
    returned,       \* history: what the login and refresh_session calls returned
    rotated,        \* history: the token pairs a committed refresh replaced
    removed,        \* history: the sessions deleted, and by what
    overlapped      \* history: users for whom two logins ran at the same time

vars == <<users, chats, chats_members, messages, sessions, user_seq, chat_seq,
          message_seq, nextSid, nextTok, now, ticks, pc, local, tx,
          last, returned, rotated, removed, overlapped>>

chatVars == <<chats, chats_members, messages, chat_seq, message_seq>>
userVars == <<users, user_seq>>
procVars == <<pc, local, tx>>
histVars == <<returned, rotated, removed, overlapped>>

----------------------------------------------------------------------------
(* Bounds of the model *)

\* The per-user session cap.  The source sets 100 (commands.rs:30); the model
\* checks the same code with a small cap.
MAX_SESSIONS_PER_USER == 2
\* Sessions created in the session lifecycle.
MaxLogins == 1
\* refresh_session calls that get as far as generating new tokens.
MaxRefresh == 2
\* Times the clock advances.
MaxTicks == 1
\* The longest token the codec is given, in bytes (the program's are 32).
MaxTokenLen == 3
\* The greatest session number whose uuid bytes the codec is given.
MaxPackId == 2
\* The greatest user id the invitations may draw from the users sequence.
MaxUserId == 5
\* The greatest chat id create_private_chat may draw from the chats sequence.
MaxChatId == 4
\* The greatest message id send_message may draw from the messages sequence.
MaxMessageId == 2
MaxAdds == 2

(* Program constants, in hours *)
ACCESS_TOKEN_TTL == 2
REFRESH_TOKEN_TTL == 336

Procs == {1, 2}

\* Option<T>::None for ids, tokens and counters (real ones start at 1).
None == 0

----------------------------------------------------------------------------
(* auth/utils.rs *)

\* A hash that leaves the password out.
hash_salt_only(password, salt) == <<"", salt>>

\* A remove_session that deletes nothing.
remove_session_noop(rows, session_id) == rows

\* SHA-256 over password bytes followed by salt bytes: an injective pairing.
hash_password_sha256(password, salt) == <<password, salt>>

current_time == now

new_refresh_token_expiration == current_time + REFRESH_TOKEN_TTL

\* An access token expiry without the time to live.
new_access_token_expiration_now == current_time

new_access_token_expiration == current_time + ACCESS_TOKEN_TTL

\* size_of::<SessionId>(): a uuid is 16 bytes.
sid_len == 16

\* The byte values the model's byte strings are made of.
Bytes == {0, 255}

\* SessionId::as_bytes of the n-th uuid of the model.
as_bytes(n) ==
    [i \in 1 .. sid_len |->
        IF i = sid_len THEN n % 256
        ELSE IF i = sid_len - 1 THEN (n \div 256) % 256
        ELSE 0]

\* pack_session_id_and_token: a buffer of sid_len + token.len() bytes, the
\* session id bytes first, the token after them.
pack_session_id_and_token(session_id, token) ==
    [i \in 1 .. (sid_len + Len(token)) |->
        IF i <= sid_len THEN session_id[i] ELSE token[i - sid_len]]

\* An unpack that wants at least one token byte.
unpack_nonempty_token(packed) ==
    IF Len(packed) <= sid_len THEN [kind |-> "None", session_id |-> <<>>, token |-> <<>>]
    ELSE [kind |-> "Some",
          session_id |-> SubSeq(packed, 1, sid_len),
          token |-> SubSeq(packed, sid_len + 1, Len(packed))]

\* unpack_session_id_and_token: packed.get(..sid_len)? is None for a buffer
\* shorter than sid_len; SessionId::from_slice takes any sid_len bytes;
\* packed.get(sid_len..) is the rest, empty when nothing is left.
unpack_session_id_and_token(packed) ==
    IF Len(packed) < sid_len THEN [kind |-> "None", session_id |-> <<>>, token |-> <<>>]
    ELSE [kind |-> "Some",
          session_id |-> SubSeq(packed, 1, sid_len),
          token |-> SubSeq(packed, sid_len + 1, Len(packed))]

----------------------------------------------------------------------------
(* Transactions *)

EmptyTx == [sess_ins |-> {}, sess_upd |-> {}, sess_del |-> {},
            user_ins |-> {}, chat_ins |-> {}, member_ins |-> {},
            message_ins |-> {}]

Ids(rows) == {r.id : r \in rows}

\* The session rows a statement of p's transaction sees.
SessionsView(p) ==
    {r \in sessions : r.id \notin tx[p].sess_del \cup Ids(tx[p].sess_upd)}
        \cup tx[p].sess_upd
        \cup {r \in tx[p].sess_ins : r.id \notin tx[p].sess_del}

\* Row id carries an uncommitted UPDATE or DELETE of a transaction other than p's.
\* A store without row locks: no statement waits for another transaction.
never_locked(id, p) == FALSE

Locked(id, p) ==
    \E q \in Procs \ {p} : id \in tx[q].sess_del \cup Ids(tx[q].sess_upd)

\* transaction.commit() on the sessions table.
CommitSessions(p) ==
    {r \in sessions : r.id \notin tx[p].sess_del \cup Ids(tx[p].sess_upd)}
        \cup tx[p].sess_upd
        \cup {r \in tx[p].sess_ins : r.id \notin tx[p].sess_del}

----------------------------------------------------------------------------
(* Results and locals *)

NoLast == [op |-> "none", kind |-> "none", session_id |-> None, user_id |-> None,
           chat_id |-> None, rows |-> 0, alias |-> "",
           current |-> "none", required |-> "none",
           packed |-> <<>>, uuid |-> <<>>, token |-> <<>>]

\* Call op returned kind; the caller fills in what the call was about
\* (session_id, chat_id, alias, packed bytes), the user id it returned, the
\* rows it wrote, the roles an InsufficientPermissions error carries and the
\* session id bytes and token bytes the codec returned.
Last(op, kind) == [NoLast EXCEPT !.op = op, !.kind = kind]

NoLocal == [session_id |-> None, user_id |-> None, counter |-> None,
            refresh_token |-> None, refresh_token_expires_at |-> None,
            access_token |-> None, access_token_expires_at |-> None,
            targets |-> {}, caller |-> None, chat_id |-> None,
            completed |-> {}, members |-> <<>>]

\* TokenExchangePayload::new, with the session's user and the counter the
\* handler read (None for login) kept beside it for the properties.
TokenExchangePayload(op, l) ==
    [op |-> op, kind |-> "Ok", user_id |-> l.user_id, session_id |-> l.session_id,
     refresh_token |-> l.refresh_token,
     refresh_token_expires_at |-> l.refresh_token_expires_at,
     access_token |-> l.access_token,
     access_token_expires_at |-> l.access_token_expires_at,
     counter |-> l.counter]

\* RequestError::Interrupted of the refresh_session call with locals l; the
\* tokens it generated were never stored nor handed out.
Interrupted(l) ==
    [TokenExchangePayload("refresh", l) EXCEPT !.kind = "Interrupted"]

----------------------------------------------------------------------------
(* database/queries.rs *)

\* SELECT ... FROM users WHERE alias = $1 (alias is UNIQUE): the matching rows.
get_user_credentials_by_alias(alias) == {u \in users : u.alias = alias}

\* The SELECT without its WHERE clause.
get_access_token_any_session(session_id) == sessions

\* SELECT user_id, access_token, access_token_expires_at FROM sessions WHERE id = $1
get_access_token(session_id) == {s \in sessions : s.id = session_id}

\* SELECT refresh_token, refresh_token_expires_at, refresh_counter FROM sessions WHERE id = $1
get_refresh_token(session_id) == {s \in sessions : s.id = session_id}

\* A resolve_session for which a token is still good at its expiry instant.
resolve_session_strict_expiry(session_id, access_token) ==
    LET found == get_access_token(session_id) IN
    IF found = {} THEN [kind |-> "TokenNotFound", user_id |-> None]
    ELSE LET token == CHOOSE s \in found : TRUE IN
         IF access_token # token.access_token
             THEN [kind |-> "TokenNotFound", user_id |-> None]
         ELSE IF token.access_token_expires_at < current_time
             THEN [kind |-> "TokenExpired", user_id |-> None]
         ELSE [kind |-> "Ok", user_id |-> token.user_id]

\* DbConnection::resolve_session: the user id, or the SessionError.
resolve_session(session_id, access_token) ==
    LET found == get_access_token(session_id) IN
    IF found = {} THEN [kind |-> "TokenNotFound", user_id |-> None]
    ELSE LET token == CHOOSE s \in found : TRUE IN
         IF access_token # token.access_token
             THEN [kind |-> "TokenNotFound", user_id |-> None]
         ELSE IF token.access_token_expires_at <= current_time
             THEN [kind |-> "TokenExpired", user_id |-> None]
         ELSE [kind |-> "Ok", user_id |-> token.user_id]

\* The checks of refresh_session with the expiry looked at before the token.
refresh_session_check_expiry_first(session_id, refresh_token) ==
    LET found == get_refresh_token(session_id) IN
    IF found = {} THEN "BadCredentials"
    ELSE LET from_db == CHOOSE s \in found : TRUE IN
         IF from_db.refresh_token_expires_at <= current_time THEN "Expired"
         ELSE IF refresh_token # from_db.refresh_token THEN "BadCredentials"
         ELSE "Ok"

\* The checks of refresh_session with the access token's expiry looked at too.
refresh_session_check_access_expiry(session_id, refresh_token) ==
    LET found == get_refresh_token(session_id) IN
    IF found = {} THEN "BadCredentials"
    ELSE LET from_db == CHOOSE s \in found : TRUE IN
         IF refresh_token # from_db.refresh_token THEN "BadCredentials"
         ELSE IF from_db.refresh_token_expires_at <= current_time THEN "Expired"
         ELSE IF from_db.access_token_expires_at <= current_time THEN "Expired"
         ELSE "Ok"

\* The checks refresh_session makes before it generates tokens.
refresh_session_check(session_id, refresh_token) ==
    LET found == get_refresh_token(session_id) IN
    IF found = {} THEN "BadCredentials"
    ELSE LET from_db == CHOOSE s \in found : TRUE IN
         IF refresh_token # from_db.refresh_token THEN "BadCredentials"
         ELSE IF from_db.refresh_token_expires_at <= current_time THEN "Expired"
         ELSE "Ok"

----------------------------------------------------------------------------
(* database/commands.rs: the session store *)

\* INSERT INTO sessions ... VALUES (gen_random_uuid(), ..., 1)
create_session(id, user_id, refresh_token, refresh_token_expires_at, access_token, access_token_expires_at) ==
    [id |-> id, user_id |-> user_id, ip |-> "127.0.0.1",
     first_seen_at |-> now, last_seen_at |-> now,
     device_name |-> "Google Pixel", os_version |-> "Android 6.0",
     app_version |-> "Walrus Messenger for Android 0.0.1",
     refresh_token |-> refresh_token,
     refresh_token_expires_at |-> refresh_token_expires_at,
     access_token |-> access_token,
     access_token_expires_at |-> access_token_expires_at,
     refresh_counter |-> 1]

\* The UPDATE without its id condition.
update_session_tokens_any_id(rows, session_id, refresh_token, refresh_token_expires_at, access_token, access_token_expires_at, refresh_counter) ==
    {[s EXCEPT !.refresh_token = refresh_token,
               !.refresh_token_expires_at = refresh_token_expires_at,
               !.access_token = access_token,
               !.access_token_expires_at = access_token_expires_at,
               !.refresh_counter = s.refresh_counter + 1] :
        s \in {r \in rows : r.refresh_counter = refresh_counter}}

\* The UPDATE without its refresh_counter condition.
update_session_tokens_any_counter(rows, session_id, refresh_token, refresh_token_expires_at, access_token, access_token_expires_at, refresh_counter) ==
    {[s EXCEPT !.refresh_token = refresh_token,
               !.refresh_token_expires_at = refresh_token_expires_at,
               !.access_token = access_token,
               !.access_token_expires_at = access_token_expires_at,
               !.refresh_counter = s.refresh_counter + 1] :
        s \in {r \in rows : r.id = session_id}}

\* The UPDATE leaving the access token as it was.
update_session_tokens_keep_access(rows, session_id, refresh_token, refresh_token_expires_at, access_token, access_token_expires_at, refresh_counter) ==
    {[s EXCEPT !.refresh_token = refresh_token,
               !.refresh_token_expires_at = refresh_token_expires_at,
               !.access_token_expires_at = access_token_expires_at,
               !.refresh_counter = s.refresh_counter + 1] :
        s \in {r \in rows : r.id = session_id /\ r.refresh_counter = refresh_counter}}

\* The UPDATE leaving refresh_counter as it was.
update_session_tokens_keep_counter(rows, session_id, refresh_token, refresh_token_expires_at, access_token, access_token_expires_at, refresh_counter) ==
    {[s EXCEPT !.refresh_token = refresh_token,
               !.refresh_token_expires_at = refresh_token_expires_at,
               !.access_token = access_token,
               !.access_token_expires_at = access_token_expires_at] :
        s \in {r \in rows : r.id = session_id /\ r.refresh_counter = refresh_counter}}

\* UPDATE sessions SET ... refresh_counter = refresh_counter + 1
\* WHERE id = $5 AND refresh_counter = $6: the new versions of the rows it hits.
update_session_tokens(rows, session_id, refresh_token, refresh_token_expires_at, access_token, access_token_expires_at, refresh_counter) ==
    {[s EXCEPT !.refresh_token = refresh_token,
               !.refresh_token_expires_at = refresh_token_expires_at,
               !.access_token = access_token,
               !.access_token_expires_at = access_token_expires_at,
               !.refresh_counter = s.refresh_counter + 1] :
        s \in {r \in rows : r.id = session_id /\ r.refresh_counter = refresh_counter}}

\* A DELETE that takes every session of the user the session belongs to.
remove_sessions_of_user(rows, session_id) ==
    {s \in rows : \A t \in rows : t.id = session_id => s.user_id # t.user_id}

\* DELETE FROM sessions WHERE id = $1
remove_session(rows, session_id) == {s \in rows : s.id # session_id}

\* The trim with its ORDER BY ascending: the greatest expiries go.
trim_sessions_ascending(rows, user_id, max_sessions) ==
    LET mine == {s \in rows : s.user_id = user_id}
        n == Cardinality(mine)
        k == IF n > max_sessions THEN n - max_sessions ELSE 0
    IN {Ids(del) : del \in
          {d \in SUBSET mine :
              /\ Cardinality(d) = k
              /\ \A x \in d, y \in mine \ d :
                    x.access_token_expires_at >= y.access_token_expires_at}}

\* DELETE FROM sessions WHERE id IN (SELECT id FROM sessions WHERE user_id = $1
\*     ORDER BY access_token_expires_at DESC OFFSET $2):
\* the sets of ids the subquery can return.  Rows with equal expiry come in
\* an order SQL leaves open, so each consistent choice is possible.
\* The trim without WHERE user_id = $1 in its subquery.
trim_sessions_of_every_user(rows, user_id, max_sessions) ==
    LET n == Cardinality(rows)
        k == IF n > max_sessions THEN n - max_sessions ELSE 0
    IN {Ids(del) : del \in
          {d \in SUBSET rows :
              /\ Cardinality(d) = k
              /\ \A x \in d, y \in rows \ d :
                    x.access_token_expires_at <= y.access_token_expires_at}}

trim_sessions_for_user(rows, user_id, max_sessions) ==
    LET mine == {s \in rows : s.user_id = user_id}
        n == Cardinality(mine)
        k == IF n > max_sessions THEN n - max_sessions ELSE 0
    IN {Ids(del) : del \in
          {d \in SUBSET mine :
              /\ Cardinality(d) = k
              /\ \A x \in d, y \in mine \ d :
                    x.access_token_expires_at <= y.access_token_expires_at}}

----------------------------------------------------------------------------
(* DbConnection::login (commands.rs 154-192) *)

\* Lines 160-165: the user id the credentials belong to, or None (BadCredentials).
login_check(alias, password) ==
    LET found == get_user_credentials_by_alias(alias) IN
    IF found = {} THEN None
    ELSE LET creds == CHOOSE u \in found : TRUE IN
         IF hash_password_sha256(password, creds.password_salt) # creds.password_hash
             THEN None
         ELSE creds.user_id

LoginBadCredentials(alias, password) ==
    /\ login_check(alias, password) = None
    /\ last' = Last("login", "BadCredentials")
    /\ UNCHANGED <<userVars, chatVars, sessions, nextSid, nextTok, now, ticks,
                   procVars, histVars>>

\* Lines 166-182: generate the tokens and insert the session in the transaction.
LoginCreateSession(p, alias, password) ==
    /\ pc[p] = "idle"
    /\ login_check(alias, password) # None
    /\ LET user_id == login_check(alias, password)
           refresh_token == nextTok
           access_token == nextTok + 1
           row == create_session(nextSid, user_id,
                                 refresh_token, new_refresh_token_expiration,
                                 access_token, new_access_token_expiration)
       IN /\ tx' = [tx EXCEPT ![p].sess_ins = {row}]
          /\ local' = [local EXCEPT ![p] =
                [NoLocal EXCEPT !.session_id = nextSid, !.user_id = user_id,
                                !.refresh_token = refresh_token,
                                !.refresh_token_expires_at = new_refresh_token_expiration,
                                !.access_token = access_token,
                                !.access_token_expires_at = new_access_token_expiration]]
          /\ overlapped' =
                IF \E q \in Procs \ {p} :
                      pc[q] \in {"login_trim", "login_trim_wait", "login_commit"}
                      /\ local[q].user_id = user_id
                THEN overlapped \cup {user_id} ELSE overlapped
    /\ nextSid' = nextSid + 1
    /\ nextTok' = nextTok + 2
    /\ pc' = [pc EXCEPT ![p] = "login_trim"]
    /\ last' = NoLast
    /\ UNCHANGED <<userVars, chatVars, sessions, now, ticks, returned, rotated, removed>>

\* Line 183: trim_sessions_for_user in the transaction.  The statement picks
\* its rows from what it sees when it starts; if another transaction holds one
\* of them, it waits.
LoginTrim(p) ==
    /\ pc[p] = "login_trim"
    /\ \E del \in trim_sessions_for_user(SessionsView(p), local[p].user_id,
                                         MAX_SESSIONS_PER_USER) :
          IF \E id \in del : Locked(id, p)
          THEN /\ pc' = [pc EXCEPT ![p] = "login_trim_wait"]
               /\ local' = [local EXCEPT ![p].targets = del]
               /\ tx' = tx
          ELSE /\ pc' = [pc EXCEPT ![p] = "login_commit"]
               /\ tx' = [tx EXCEPT ![p].sess_del = del]
               /\ local' = local
    /\ last' = NoLast
    /\ UNCHANGED <<userVars, chatVars, sessions, nextSid, nextTok, now, ticks,
                   histVars>>

\* The waiting DELETE goes on once the rows are free: a row the other
\* transaction deleted is skipped, a row it updated is deleted.
LoginTrimResume(p) ==
    /\ pc[p] = "login_trim_wait"
    /\ \A id \in local[p].targets : ~Locked(id, p)
    /\ tx' = [tx EXCEPT ![p].sess_del = local[p].targets \cap Ids(SessionsView(p))]
    /\ local' = [local EXCEPT ![p].targets = {}]
    /\ pc' = [pc EXCEPT ![p] = "login_commit"]
    /\ last' = NoLast
    /\ UNCHANGED <<userVars, chatVars, sessions, nextSid, nextTok, now, ticks,
                   histVars>>

\* Lines 184-191: commit and return the TokenExchangePayload.
LoginCommit(p) ==
    /\ pc[p] = "login_commit"
    /\ sessions' = CommitSessions(p)
    /\ tx' = [tx EXCEPT ![p] = EmptyTx]
    /\ returned' = returned \cup {TokenExchangePayload("login", local[p])}
    /\ removed' = removed \cup
                    {[session_id |-> id, by |-> "trim"] : id \in tx[p].sess_del}
    /\ local' = [local EXCEPT ![p] = NoLocal]
    /\ pc' = [pc EXCEPT ![p] = "idle"]
    /\ last' = NoLast
    /\ UNCHANGED <<userVars, chatVars, nextSid, nextTok, now, ticks,
                   rotated, overlapped>>

----------------------------------------------------------------------------
(* DbConnection::refresh_session (commands.rs 199-240) *)

\* A refresh_session that revokes the session whose token it refuses.
RefreshRejectRevoking(session_id, refresh_token) ==
    /\ refresh_session_check(session_id, refresh_token) # "Ok"
    /\ sessions' = remove_session(sessions, session_id)
    /\ last' = [Last("refresh", refresh_session_check(session_id, refresh_token))
                   EXCEPT !.session_id = session_id]
    /\ UNCHANGED <<userVars, chatVars, nextSid, nextTok, now, ticks,
                   procVars, histVars>>

\* Lines 205-213: the row is read through the pool, so it is the committed row.
RefreshReject(session_id, refresh_token) ==
    /\ refresh_session_check(session_id, refresh_token) # "Ok"
    /\ last' = [Last("refresh", refresh_session_check(session_id, refresh_token))
                   EXCEPT !.session_id = session_id]
    /\ UNCHANGED <<userVars, chatVars, sessions, nextSid, nextTok, now, ticks,
                   procVars, histVars>>

\* refresh_session calls that have generated tokens.
RefreshesStarted == (nextTok - 1) \div 2 - nextSid

\* Lines 214-217: new tokens and expiries.
RefreshGenerate(p, session_id, refresh_token) ==
    /\ pc[p] = "idle"
    /\ refresh_session_check(session_id, refresh_token) = "Ok"
    /\ LET from_db == CHOOSE s \in get_refresh_token(session_id) : TRUE IN
       local' = [local EXCEPT ![p] =
                [NoLocal EXCEPT !.session_id = session_id,
                                !.user_id = from_db.user_id,
                                !.counter = from_db.refresh_counter,
                                !.refresh_token = nextTok,
                                !.refresh_token_expires_at = new_refresh_token_expiration,
                                !.access_token = nextTok + 1,
                                !.access_token_expires_at = new_access_token_expiration]]
    /\ nextTok' = nextTok + 2
    /\ pc' = [pc EXCEPT ![p] = "refresh_update"]
    /\ last' = NoLast
    /\ UNCHANGED <<userVars, chatVars, sessions, nextSid, now, ticks, tx, histVars>>

\* Lines 218-231: the conditional UPDATE in the transaction; no row updated
\* means Interrupted, and the dropped transaction rolls back.
RefreshUpdate(p) ==
    /\ pc[p] = "refresh_update"
    /\ ~Locked(local[p].session_id, p)
    /\ LET l == local[p]
           updated == update_session_tokens(SessionsView(p), l.session_id,
                          l.refresh_token, l.refresh_token_expires_at,
                          l.access_token, l.access_token_expires_at, l.counter)
       IN IF updated # {}
          THEN /\ tx' = [tx EXCEPT ![p].sess_upd = updated]
               /\ pc' = [pc EXCEPT ![p] = "refresh_commit"]
               /\ UNCHANGED <<returned, local>>
          ELSE /\ tx' = [tx EXCEPT ![p] = EmptyTx]
               /\ pc' = [pc EXCEPT ![p] = "idle"]
               /\ returned' = returned \cup {Interrupted(l)}
               /\ local' = [local EXCEPT ![p] = NoLocal]
    /\ last' = NoLast
    /\ UNCHANGED <<userVars, chatVars, sessions, nextSid, nextTok, now, ticks,
                   rotated, removed, overlapped>>

\* Lines 232-239: commit and return the TokenExchangePayload.
RefreshCommit(p) ==
    /\ pc[p] = "refresh_commit"
    /\ sessions' = CommitSessions(p)
    /\ tx' = [tx EXCEPT ![p] = EmptyTx]
    /\ returned' = returned \cup {TokenExchangePayload("refresh", local[p])}
    /\ rotated' = rotated \cup
          {[session_id |-> s.id, access_token |-> s.access_token,
            refresh_token |-> s.refresh_token] :
              s \in {r \in sessions : r.id = local[p].session_id}}
    /\ local' = [local EXCEPT ![p] = NoLocal]
    /\ pc' = [pc EXCEPT ![p] = "idle"]
    /\ last' = NoLast
    /\ UNCHANGED <<userVars, chatVars, nextSid, nextTok, now, ticks, removed, overlapped>>

----------------------------------------------------------------------------
(* DbConnection::logout (commands.rs 195-197) and DbConnection::resolve_session *)

\* One DELETE through the pool; it waits for a transaction that holds the row.
Logout(session_id) ==
    /\ \A p \in Procs : ~Locked(session_id, p)
    /\ sessions' = remove_session(sessions, session_id)
    /\ removed' = removed \cup
          {[session_id |-> s.id, by |-> "logout"] :
              s \in {r \in sessions : r.id = session_id}}
    /\ last' = [Last("logout", "Ok") EXCEPT
                   !.session_id = session_id,
                   !.rows = Cardinality(sessions \ remove_session(sessions, session_id))]
    /\ UNCHANGED <<userVars, chatVars, nextSid, nextTok, now, ticks, procVars,
                   returned, rotated, overlapped>>

\* A resolve_session that deletes the session whose token it finds expired.
ResolveRemovingExpired(session_id, access_token) ==
    /\ LET r == resolve_session(session_id, access_token) IN
       /\ last' = [Last("resolve", r.kind) EXCEPT
                      !.session_id = session_id, !.user_id = r.user_id]
       /\ sessions' = IF r.kind = "TokenExpired"
                      THEN remove_session(sessions, session_id) ELSE sessions
    /\ UNCHANGED <<userVars, chatVars, nextSid, nextTok, now, ticks,
                   procVars, histVars>>

\* DbConnection::resolve_session, called with what the bearer token unpacks to.
Resolve(session_id, access_token) ==
    /\ LET r == resolve_session(session_id, access_token) IN
       last' = [Last("resolve", r.kind) EXCEPT
                   !.session_id = session_id, !.user_id = r.user_id]
    /\ UNCHANGED <<userVars, chatVars, sessions, nextSid, nextTok, now, ticks,
                   procVars, histVars>>

\* The wall clock advances by d hours.
Tick(d) ==
    /\ now' = now + d
    /\ ticks' = ticks + 1
    /\ last' = NoLast
    /\ UNCHANGED <<userVars, chatVars, sessions, nextSid, nextTok, procVars, histVars>>

\* A call of pack_session_id_and_token.
Pack(session_id, token) ==
    /\ last' = [Last("pack", "Ok") EXCEPT
                   !.uuid = session_id, !.token = token,
                   !.packed = pack_session_id_and_token(session_id, token)]
    /\ UNCHANGED <<userVars, chatVars, sessions, nextSid, nextTok, now, ticks,
                   procVars, histVars>>

\* A call of unpack_session_id_and_token.
Unpack(packed) ==
    /\ LET r == unpack_session_id_and_token(packed) IN
       last' = [Last("unpack", r.kind) EXCEPT
                   !.packed = packed, !.uuid = r.session_id, !.token = r.token]
    /\ UNCHANGED <<userVars, chatVars, sessions, nextSid, nextTok, now, ticks,
                   procVars, histVars>>

----------------------------------------------------------------------------
(* models/user.rs: validation *)

USER_DISPLAY_NAME_LENGTH_LIMIT == 30
USER_ALIAS_LENGTH_LIMIT == 30
USER_PASSWORD_MIN_LENGTH == 8
USER_PASSWORD_MAX_LENGTH == 80

\* char::is_alphanumeric, on the characters the model's strings are made of.
Alphanumeric ==
    {"a", "b", "c", "d", "e", "f", "g", "h", "i", "j", "k", "l", "m", "n", "o", "p",
     "q", "r", "s", "t", "u", "v", "w", "x", "y", "z", "A", "B", "C", "D", "E", "F",
     "G", "H", "I", "J", "K", "L", "M", "N", "O", "P", "Q", "R", "S", "T", "U", "V",
     "W", "X", "Y", "Z", "0", "1", "2", "3", "4", "5", "6", "7", "8", "9"}

\* char::is_whitespace, likewise.
Whitespace == {" ", "\t", "\n", "\r"}

CharAt(str, i) == SubSeq(str, i, i)

\* str::trim: the string without leading and trailing whitespace.
RECURSIVE TrimStart(_)
TrimStart(str) ==
    IF Len(str) > 0 /\ CharAt(str, 1) \in Whitespace
    THEN TrimStart(SubSeq(str, 2, Len(str))) ELSE str

RECURSIVE TrimEnd(_)
TrimEnd(str) ==
    IF Len(str) > 0 /\ CharAt(str, Len(str)) \in Whitespace
    THEN TrimEnd(SubSeq(str, 1, Len(str) - 1)) ELSE str

Trim(str) == TrimEnd(TrimStart(str))

validate_user_alias(alias) ==
    IF \E i \in 1 .. Len(alias) : CharAt(alias, i) \notin Alphanumeric \cup {"_"}
        THEN "InvalidInput"
    ELSE IF Len(alias) = 0 THEN "InvalidInput"
    ELSE IF Len(alias) > USER_ALIAS_LENGTH_LIMIT THEN "InvalidInput"
    ELSE "Ok"

validate_user_display_name(display_name) ==
    IF Len(Trim(display_name)) # Len(display_name) THEN "InvalidInput"
    ELSE IF Len(display_name) = 0 THEN "InvalidInput"
    ELSE IF Len(display_name) > USER_DISPLAY_NAME_LENGTH_LIMIT THEN "InvalidInput"
    ELSE "Ok"

validate_user_password(password) ==
    IF Len(password) < USER_PASSWORD_MIN_LENGTH \/ Len(password) > USER_PASSWORD_MAX_LENGTH
        THEN "InvalidInput"
    ELSE "Ok"

----------------------------------------------------------------------------
(* database/commands.rs and queries.rs: users, chats, members, messages *)

\* SELECT role FROM users WHERE id = $1 (fetch_one): the matching rows.
get_user_role(user_id) == {u \in users : u.id = user_id}

\* A lookup that falls back to the origin user when no row matches.
get_user_id_by_alias_or_origin(alias) ==
    IF \E u \in users : u.alias = alias
    THEN {u \in users : u.alias = alias}
    ELSE {u \in users : u.id = 1}

\* SELECT id AS user_id FROM users WHERE alias = $1 (fetch_one): the matching rows.
get_user_id_by_alias(alias) == {u \in users : u.alias = alias}

\* A membership test that looks at the user only.
is_user_in_any_chat(chat_id, user_id) == \E m \in chats_members : m.user_id = user_id

\* SELECT EXISTS(SELECT 1 FROM chats_members WHERE chat_id = $1 AND user_id = $2)
is_user_in_chat(chat_id, user_id) ==
    \E m \in chats_members : m.chat_id = chat_id /\ m.user_id = user_id

\* SELECT EXISTS(SELECT 1 FROM chats_members a JOIN chats_members b
\*     ON a.chat_id = b.chat_id AND a.user_id != b.user_id
\*     WHERE a.user_id = $1 AND b.user_id = $2): the chat's kind is not looked at.
private_chat_exists(user_id_a, user_id_b) ==
    \E a \in chats_members, b \in chats_members :
        /\ a.chat_id = b.chat_id /\ a.user_id # b.user_id
        /\ a.user_id = user_id_a /\ b.user_id = user_id_b

\* A users table without the UNIQUE constraint on alias.
alias_never_taken(rows, alias) == FALSE

\* alias VARCHAR(30) NOT NULL UNIQUE: some row of rows has the alias already.
alias_taken(rows, alias) == \E u \in rows : u.alias = alias

\* The users row INSERT INTO users ... RETURNING id adds.
create_user(id, alias, display_name, password_salt, password_hash, role, invited_by) ==
    [id |-> id, user_id |-> id, alias |-> alias, display_name |-> display_name,
     password_salt |-> password_salt, password_hash |-> password_hash,
     role |-> role, invited_by |-> invited_by]

\* The chats row INSERT INTO chats ... RETURNING id adds.
create_chat(id, display_name, description, kind) ==
    [id |-> id, display_name |-> display_name, description |-> description,
     kind |-> kind]

\* The chats_members row INSERT INTO chats_members adds.
add_member_to_chat(user_id, chat_id, role) ==
    [chat_id |-> chat_id, user_id |-> user_id, role |-> role]

\* The messages row INSERT INTO messages ... RETURNING id adds.
create_message(id, chat_id, user_id, text) ==
    [id |-> id, chat_id |-> chat_id, user_id |-> user_id, text |-> text]

\* create_with_self_chat: the chat row and the membership row it inserts
\* (NULL display name and description are the empty string).
create_with_self_chat(chat_id, caller) ==
    [chat |-> create_chat(chat_id, "", "", "WithSelf"),
     member |-> add_member_to_chat(caller, chat_id, "Owner")]

\* The helper on a chats_members table without its primary key.
create_private_chat_without_key(chat_id, caller, recipient) ==
    [chat |-> create_chat(chat_id, "", "", "Private"),
     members |-> {add_member_to_chat(caller, chat_id, "Member"),
                  add_member_to_chat(recipient, chat_id, "Member")},
     ok |-> TRUE]

\* create_private_chat (helper): the chat row and the membership rows it
\* inserts; the two memberships are one row when caller = recipient, which
\* the primary key (user_id, chat_id) rejects.
create_private_chat(chat_id, caller, recipient) ==
    [chat |-> create_chat(chat_id, "", "", "Private"),
     members |-> {add_member_to_chat(caller, chat_id, "Member"),
                  add_member_to_chat(recipient, chat_id, "Member")},
     ok |-> caller # recipient]

\* A commit that loses the membership rows.
CommitWithoutMembers(p) == chats_members

\* transaction.commit() on users, chats and chats_members; a Transaction
\* dropped without commit leaves the tables as they are.
CommitUsers(p) == users \cup tx[p].user_ins
CommitChats(p) == chats \cup tx[p].chat_ins
CommitMembers(p) == chats_members \cup tx[p].member_ins

----------------------------------------------------------------------------
(* DbConnection::invite_user (commands.rs 34-67) *)

\* An invite_user that validates the request before it looks at the role.
invite_user_check_validation_first(caller, request) ==
    LET found == get_user_role(caller) IN
    IF found = {} THEN "RowNotFound"
    ELSE IF validate_user_alias(request.alias) # "Ok" THEN "InvalidInput"
    ELSE IF validate_user_display_name(request.display_name) # "Ok" THEN "InvalidInput"
    ELSE IF validate_user_password(request.initial_password) # "Ok" THEN "InvalidInput"
    ELSE IF (CHOOSE u \in found : TRUE).role # "Admin" THEN "InsufficientPermissions"
    ELSE "Ok"

\* Lines 40-51: the caller's role is checked first, then the request.
\* The checks of invite_user without the comparison of the caller's role.
invite_user_check_any_role(caller, request) ==
    LET found == get_user_role(caller) IN
    IF found = {} THEN "RowNotFound"
    ELSE IF validate_user_alias(request.alias) # "Ok" THEN "InvalidInput"
    ELSE IF validate_user_display_name(request.display_name) # "Ok" THEN "InvalidInput"
    ELSE IF validate_user_password(request.initial_password) # "Ok" THEN "InvalidInput"
    ELSE "Ok"

invite_user_check(caller, request) ==
    LET found == get_user_role(caller) IN
    IF found = {} THEN "RowNotFound"
    ELSE IF (CHOOSE u \in found : TRUE).role # "Admin" THEN "InsufficientPermissions"
    ELSE IF validate_user_alias(request.alias) # "Ok" THEN "InvalidInput"
    ELSE IF validate_user_display_name(request.display_name) # "Ok" THEN "InvalidInput"
    ELSE IF validate_user_password(request.initial_password) # "Ok" THEN "InvalidInput"
    ELSE "Ok"

\* The roles in the InsufficientPermissions error of lines 43-46.
current_role(caller) == (CHOOSE u \in get_user_role(caller) : TRUE).role
required_role == "Admin"

InviteReject(caller, request) ==
    /\ invite_user_check(caller, request) # "Ok"
    /\ last' = IF invite_user_check(caller, request) = "InsufficientPermissions"
               THEN [Last("invite_user", "InsufficientPermissions") EXCEPT
                       !.user_id = caller, !.alias = request.alias,
                       !.current = current_role(caller),
                       !.required = required_role]
               ELSE [Last("invite_user", invite_user_check(caller, request)) EXCEPT
                       !.user_id = caller, !.alias = request.alias]
    /\ UNCHANGED <<userVars, chatVars, sessions, nextSid, nextTok, now, ticks,
                   procVars, histVars>>

\* impl IntoResponse for RequestError: the status code of the answer.
into_response(kind) ==
    CASE kind = "RowNotFound" -> 404
      [] kind = "Sqlx" -> 500
      [] kind \in {"InvalidInput", "LimitExceeded", "InsufficientPermissions",
                   "AlreadyExists", "NotFound"} -> 400
      [] kind \in {"BadCredentials", "Expired"} -> 401
      [] kind = "Interrupted" -> 409

\* What a handler that ended with an error after touching the sequences
\* returned: the ids it had drawn.
Failed(op, kind, user_id, chat_id) ==
    [op |-> op, kind |-> kind, user_id |-> user_id, chat_id |-> chat_id]

\* Lines 52-63: salt, hash and create_user in the transaction.  The unique
\* index on alias makes the INSERT wait for a transaction that has inserted
\* the same alias; an alias already committed is a unique violation (Sqlx),
\* and the dropped transaction rolls back.  The identity value is drawn
\* either way.
InviteCreateUser(p, caller, request) ==
    /\ pc[p] = "idle"
    /\ invite_user_check(caller, request) = "Ok"
    /\ \A q \in Procs \ {p} : ~alias_taken(tx[q].user_ins, request.alias)
    /\ LET password_salt == nextTok
           password_hash == hash_password_sha256(request.initial_password, password_salt)
           row == create_user(user_seq, request.alias, request.display_name,
                              password_salt, password_hash, request.role, caller)
       IN IF alias_taken(users, request.alias)
          THEN /\ returned' = returned \cup
                     {Failed("invite_user", "Sqlx", user_seq, None)}
               /\ UNCHANGED <<pc, local, tx>>
          ELSE /\ tx' = [tx EXCEPT ![p].user_ins = {row}]
               /\ local' = [local EXCEPT ![p] =
                     [NoLocal EXCEPT !.caller = caller, !.user_id = user_seq]]
               /\ pc' = [pc EXCEPT ![p] = "invite_self_chat"]
               /\ UNCHANGED returned
    /\ user_seq' = user_seq + 1
    /\ nextTok' = nextTok + 1
    /\ last' = NoLast
    /\ UNCHANGED <<users, chatVars, sessions, nextSid, now, ticks,
                   rotated, removed, overlapped>>

\* Line 64: create_with_self_chat in the transaction.
InviteSelfChat(p) ==
    /\ pc[p] = "invite_self_chat"
    /\ LET rows == create_with_self_chat(chat_seq, local[p].user_id) IN
       tx' = [tx EXCEPT ![p].chat_ins = {rows.chat}, ![p].member_ins = {rows.member}]
    /\ local' = [local EXCEPT ![p].chat_id = chat_seq]
    /\ chat_seq' = chat_seq + 1
    /\ pc' = [pc EXCEPT ![p] = "invite_commit"]
    /\ last' = NoLast
    /\ UNCHANGED <<userVars, chats, chats_members, messages, message_seq, sessions,
                   nextSid, nextTok, now, ticks, histVars>>

\* Lines 65-66: commit and return the new user's id.
InviteCommit(p) ==
    /\ pc[p] = "invite_commit"
    /\ users' = CommitUsers(p)
    /\ chats' = CommitChats(p)
    /\ chats_members' = CommitMembers(p)
    /\ tx' = [tx EXCEPT ![p] = EmptyTx]
    /\ returned' = returned \cup
          {[op |-> "invite_user", kind |-> "Ok", user_id |-> local[p].user_id,
            chat_id |-> local[p].chat_id]}
    /\ local' = [local EXCEPT ![p] = NoLocal]
    /\ pc' = [pc EXCEPT ![p] = "idle"]
    /\ last' = NoLast
    /\ UNCHANGED <<user_seq, chat_seq, messages, message_seq, sessions, nextSid,
                   nextTok, now, ticks, rotated, removed, overlapped>>

----------------------------------------------------------------------------
(* DbConnection::create_private_chat (commands.rs 70-85) *)

\* Lines 75-80: both reads go through the pool, outside any transaction.
\* A user's id never changes, so the two reads are taken in one step.
create_private_chat_check(caller, recipient_alias) ==
    LET found == get_user_id_by_alias(recipient_alias) IN
    IF found = {} THEN "RowNotFound"
    ELSE IF private_chat_exists(caller, (CHOOSE u \in found : TRUE).user_id)
        THEN "AlreadyExists"
    ELSE "Ok"

PrivateChatReject(caller, recipient_alias) ==
    /\ create_private_chat_check(caller, recipient_alias) # "Ok"
    /\ last' = [Last("create_private_chat",
                     create_private_chat_check(caller, recipient_alias))
                   EXCEPT !.user_id = caller]
    /\ UNCHANGED <<userVars, chatVars, sessions, nextSid, nextTok, now, ticks,
                   procVars, histVars>>

\* Lines 81-82: the transaction begins and the helper inserts the chat and
\* both memberships, which no other transaction can see or wait for.  With
\* caller = recipient the second membership violates the primary key: Sqlx,
\* and the dropped transaction rolls back.
PrivateChatCreate(p, caller, recipient_alias) ==
    /\ pc[p] = "idle"
    /\ create_private_chat_check(caller, recipient_alias) = "Ok"
    /\ LET recipient_id ==
               (CHOOSE u \in get_user_id_by_alias(recipient_alias) : TRUE).user_id
           rows == create_private_chat(chat_seq, caller, recipient_id)
       IN IF rows.ok
          THEN /\ tx' = [tx EXCEPT ![p].chat_ins = {rows.chat},
                                   ![p].member_ins = rows.members]
               /\ local' = [local EXCEPT ![p] =
                     [NoLocal EXCEPT !.caller = caller, !.user_id = recipient_id,
                                     !.chat_id = chat_seq]]
               /\ pc' = [pc EXCEPT ![p] = "private_commit"]
               /\ UNCHANGED returned
          ELSE /\ returned' = returned \cup
                     {Failed("create_private_chat", "Sqlx", caller, chat_seq)}
               /\ UNCHANGED <<pc, local, tx>>
    /\ chat_seq' = chat_seq + 1
    /\ last' = NoLast
    /\ UNCHANGED <<userVars, chats, chats_members, messages, message_seq, sessions,
                   nextSid, nextTok, now, ticks, rotated, removed, overlapped>>

\* Lines 83-84: commit and return the chat id.
PrivateChatCommit(p) ==
    /\ pc[p] = "private_commit"
    /\ chats' = CommitChats(p)
    /\ chats_members' = CommitMembers(p)
    /\ tx' = [tx EXCEPT ![p] = EmptyTx]
    /\ returned' = returned \cup
          {[op |-> "create_private_chat", kind |-> "Ok", user_id |-> local[p].caller,
            recipient |-> local[p].user_id, chat_id |-> local[p].chat_id]}
    /\ local' = [local EXCEPT ![p] = NoLocal]
    /\ pc' = [pc EXCEPT ![p] = "idle"]
    /\ last' = NoLast
    /\ UNCHANGED <<userVars, chat_seq, messages, message_seq, sessions, nextSid,
                   nextTok, now, ticks, rotated, removed, overlapped>>

\* DbConnection::create_group_chat: a Group chat with the caller as its
\* Owner, in one transaction.  A caller without a users row violates the
\* foreign key of chats_members: Sqlx, rolled back, the chat id drawn.
GroupChatCreate(caller, display_name) ==
    /\ IF \E u \in users : u.id = caller
       THEN /\ chats' = chats \cup {create_chat(chat_seq, display_name, "", "Group")}
            /\ chats_members' = chats_members \cup
                   {add_member_to_chat(caller, chat_seq, "Owner")}
            /\ last' = [Last("create_group_chat", "Ok") EXCEPT
                           !.user_id = caller, !.chat_id = chat_seq]
       ELSE /\ last' = [Last("create_group_chat", "Sqlx") EXCEPT
                           !.user_id = caller, !.chat_id = chat_seq]
            /\ UNCHANGED <<chats, chats_members>>
    /\ chat_seq' = chat_seq + 1
    /\ UNCHANGED <<userVars, messages, message_seq, sessions, nextSid, nextTok,
                   now, ticks, procVars, histVars>>

\* create_group_chat by a task that runs beside others, statement by
\* statement.  Lines 93-100: the transaction begins and create_chat inserts
\* the Group chat, which no other transaction sees.
GroupChatInsert(p, caller, display_name) ==
    /\ pc[p] = "idle"
    /\ tx' = [tx EXCEPT ![p].chat_ins = {create_chat(chat_seq, display_name, "", "Group")}]
    /\ local' = [local EXCEPT ![p] =
          [NoLocal EXCEPT !.caller = caller, !.chat_id = chat_seq]]
    /\ chat_seq' = chat_seq + 1
    /\ pc' = [pc EXCEPT ![p] = "group_owner"]
    /\ last' = NoLast
    /\ UNCHANGED <<userVars, chats, chats_members, messages, message_seq, sessions,
                   nextSid, nextTok, now, ticks, histVars>>

\* Line 101: the caller's Owner membership in the transaction.  A caller
\* without a users row violates the foreign key: Sqlx, and the dropped
\* transaction rolls the chat row back.
GroupChatAddOwner(p) ==
    /\ pc[p] = "group_owner"
    /\ LET l == local[p] IN
       IF \E u \in users : u.id = l.caller
       THEN /\ tx' = [tx EXCEPT ![p].member_ins =
                         {add_member_to_chat(l.caller, l.chat_id, "Owner")}]
            /\ pc' = [pc EXCEPT ![p] = "group_commit"]
            /\ UNCHANGED <<returned, local>>
       ELSE /\ tx' = [tx EXCEPT ![p] = EmptyTx]
            /\ returned' = returned \cup
                  {Failed("create_group_chat", "Sqlx", l.caller, l.chat_id)}
            /\ local' = [local EXCEPT ![p] = NoLocal]
            /\ pc' = [pc EXCEPT ![p] = "idle"]
    /\ last' = NoLast
    /\ UNCHANGED <<userVars, chatVars, sessions, nextSid, nextTok, now, ticks,
                   rotated, removed, overlapped>>

\* Lines 102-103: commit and return the chat id.
GroupChatCommit(p) ==
    /\ pc[p] = "group_commit"
    /\ chats' = CommitChats(p)
    /\ chats_members' = CommitMembers(p)
    /\ tx' = [tx EXCEPT ![p] = EmptyTx]
    /\ returned' = returned \cup
          {[op |-> "create_group_chat", kind |-> "Ok", user_id |-> local[p].caller,
            chat_id |-> local[p].chat_id]}
    /\ local' = [local EXCEPT ![p] = NoLocal]
    /\ pc' = [pc EXCEPT ![p] = "idle"]
    /\ last' = NoLast
    /\ UNCHANGED <<userVars, chat_seq, messages, message_seq, sessions, nextSid,
                   nextTok, now, ticks, rotated, removed, overlapped>>

\* The rows the loop of add_members_to_group_chat inserts: one for every
\* entry of members but the caller.
RECURSIVE group_members(_, _, _)
group_members(caller, chat_id, members) ==
    IF members = <<>> THEN <<>>
    ELSE (IF Head(members) = caller THEN <<>>
          ELSE <<add_member_to_chat(Head(members), chat_id, "Member")>>)
         \o group_members(caller, chat_id, Tail(members))

\* DbConnection::add_members_to_group_chat: NotFound for a caller who is not
\* in the chat; otherwise the memberships in one transaction.  An entry that
\* is in the chat already or comes twice violates PRIMARY KEY (user_id,
\* chat_id), an entry without a users row the foreign key: Sqlx, and the
\* dropped transaction rolls back.  Neither the chat's kind nor the
\* caller's role is looked at.
AddMembersToGroupChat(caller, chat_id, members) ==
    /\ LET rows == group_members(caller, chat_id, members)
           kind == IF ~is_user_in_chat(chat_id, caller) THEN "NotFound"
                   ELSE IF \/ \E i \in 1 .. Len(rows) :
                                 \/ is_user_in_chat(chat_id, rows[i].user_id)
                                 \/ \A u \in users : u.id # rows[i].user_id
                           \/ \E i \in 1 .. Len(rows), j \in 1 .. Len(rows) :
                                 i # j /\ rows[i] = rows[j]
                        THEN "Sqlx"
                   ELSE "Ok"
       IN /\ chats_members' =
                IF kind = "Ok" THEN chats_members \cup {rows[i] : i \in 1 .. Len(rows)}
                ELSE chats_members
          /\ last' = [Last("add_members_to_group_chat", kind) EXCEPT
                         !.user_id = caller, !.chat_id = chat_id]
    /\ UNCHANGED <<userVars, chats, chat_seq, messages, message_seq, sessions,
                   nextSid, nextTok, now, ticks, procVars, histVars>>

\* add_members_to_group_chat by a task that runs beside others, statement by
\* statement.  Line 115: the membership test through the pool; NotFound.
AddMembersReject(caller, chat_id, members) ==
    /\ ~is_user_in_chat(chat_id, caller)
    /\ last' = [Last("add_members_to_group_chat", "NotFound") EXCEPT
                   !.user_id = caller, !.chat_id = chat_id]
    /\ UNCHANGED <<userVars, chatVars, sessions, nextSid, nextTok, now, ticks,
                   procVars, histVars>>

\* Lines 115-118: the caller is a member; the transaction begins.
\* local.targets keeps the users that were listed.
AddMembersBegin(p, caller, chat_id, members) ==
    /\ pc[p] = "idle"
    /\ is_user_in_chat(chat_id, caller)
    /\ local' = [local EXCEPT ![p] =
          [NoLocal EXCEPT !.caller = caller, !.chat_id = chat_id,
                          !.members = members,
                          !.targets = {members[i] : i \in 1 .. Len(members)}]]
    /\ pc' = [pc EXCEPT ![p] = "add_members"]
    /\ last' = NoLast
    /\ UNCHANGED <<userVars, chatVars, sessions, nextSid, nextTok, now, ticks,
                   tx, histVars>>

\* The loop with every INSERT sent through the pool instead of the transaction.
AddMemberInsertAutocommit(p) ==
    /\ pc[p] = "add_members" /\ local[p].members # <<>>
    /\ LET l == local[p]
           member == Head(l.members)
           row == add_member_to_chat(member, l.chat_id, "Member")
       IN IF member = l.caller
          THEN /\ local' = [local EXCEPT ![p].members = Tail(l.members)]
               /\ UNCHANGED <<pc, returned, chats_members>>
          ELSE IF is_user_in_chat(l.chat_id, member) \/ \A u \in users : u.id # member
          THEN /\ returned' = returned \cup
                     {Failed("add_members_to_group_chat", "Sqlx", l.caller, l.chat_id)}
               /\ local' = [local EXCEPT ![p] = NoLocal]
               /\ pc' = [pc EXCEPT ![p] = "idle"]
               /\ UNCHANGED chats_members
          ELSE /\ chats_members' = chats_members \cup {row}
               /\ local' = [local EXCEPT ![p].members = Tail(l.members)]
               /\ UNCHANGED <<pc, returned>>
    /\ last' = NoLast
    /\ UNCHANGED <<userVars, chats, chat_seq, messages, message_seq, sessions, nextSid,
                   nextTok, now, ticks, tx, rotated, removed, overlapped>>

\* Lines 119-124: one turn of the loop.  The caller is skipped.  The INSERT
\* waits for a transaction that has inserted the same (user_id, chat_id); a
\* pair that is committed or was inserted by this transaction violates the
\* primary key, a user without a row the foreign key: Sqlx, and the dropped
\* transaction rolls back.
AddMemberInsert(p) ==
    /\ pc[p] = "add_members" /\ local[p].members # <<>>
    /\ LET l == local[p]
           member == Head(l.members)
           row == add_member_to_chat(member, l.chat_id, "Member")
       IN IF member = l.caller
          THEN /\ local' = [local EXCEPT ![p].members = Tail(l.members)]
               /\ UNCHANGED <<pc, tx, returned>>
          ELSE /\ \A q \in Procs \ {p} : \A m \in tx[q].member_ins :
                     ~(m.user_id = member /\ m.chat_id = l.chat_id)
               /\ IF \/ is_user_in_chat(l.chat_id, member)
                     \/ \E m \in tx[p].member_ins : m.user_id = member
                     \/ \A u \in users : u.id # member
                  THEN /\ tx' = [tx EXCEPT ![p] = EmptyTx]
                       /\ returned' = returned \cup
                             {Failed("add_members_to_group_chat", "Sqlx",
                                     l.caller, l.chat_id)}
                       /\ local' = [local EXCEPT ![p] = NoLocal]
                       /\ pc' = [pc EXCEPT ![p] = "idle"]
                  ELSE /\ tx' = [tx EXCEPT ![p].member_ins = @ \cup {row}]
                       /\ local' = [local EXCEPT ![p].members = Tail(l.members)]
                       /\ UNCHANGED <<pc, returned>>
    /\ last' = NoLast
    /\ UNCHANGED <<userVars, chatVars, sessions, nextSid, nextTok, now, ticks,
                   rotated, removed, overlapped>>

\* Lines 125-126: commit; Ok(()).
AddMembersCommit(p) ==
    /\ pc[p] = "add_members" /\ local[p].members = <<>>
    /\ chats_members' = CommitMembers(p)
    /\ tx' = [tx EXCEPT ![p] = EmptyTx]
    /\ returned' = returned \cup
          {[op |-> "add_members_to_group_chat", kind |-> "Ok",
            user_id |-> local[p].caller, chat_id |-> local[p].chat_id,
            members |-> local[p].targets]}
    /\ local' = [local EXCEPT ![p] = NoLocal]
    /\ pc' = [pc EXCEPT ![p] = "idle"]
    /\ last' = NoLast
    /\ UNCHANGED <<userVars, chats, chat_seq, messages, message_seq, sessions,
                   nextSid, nextTok, now, ticks, rotated, removed, overlapped>>

\* A statement or the commit of a chat handler fails, or the handler's future
\* is dropped: the Transaction is dropped without commit and rolls back.
Rollback(p) ==
    /\ pc[p] \in {"invite_self_chat", "invite_commit", "private_commit"}
    /\ tx' = [tx EXCEPT ![p] = EmptyTx]
    /\ returned' = returned \cup
          {Failed(IF pc[p] = "private_commit" THEN "create_private_chat"
                  ELSE "invite_user",
                  "Sqlx", local[p].user_id, local[p].chat_id)}
    /\ local' = [local EXCEPT ![p] = NoLocal]
    /\ pc' = [pc EXCEPT ![p] = "idle"]
    /\ last' = NoLast
    /\ UNCHANGED <<userVars, chatVars, sessions, nextSid, nextTok, now, ticks,
                   rotated, removed, overlapped>>

----------------------------------------------------------------------------
(* DbConnection::send_message (commands.rs 135-151) and list_messages
   (queries.rs 27-38) *)

\* Memberships are never removed, so the membership read and the INSERT, both
\* through the pool, are taken in one step.
SendMessage(caller, chat_id, text) ==
    /\ IF is_user_in_chat(chat_id, caller)
       THEN /\ messages' = messages \cup
                   {create_message(message_seq, chat_id, caller, text)}
            /\ message_seq' = message_seq + 1
            /\ last' = [Last("send_message", "Ok") EXCEPT
                           !.user_id = caller, !.chat_id = chat_id, !.rows = 1]
       ELSE /\ last' = [Last("send_message", "NotFound") EXCEPT
                           !.user_id = caller, !.chat_id = chat_id]
            /\ UNCHANGED <<messages, message_seq>>
    /\ UNCHANGED <<userVars, chats, chats_members, chat_seq, sessions, nextSid,
                   nextTok, now, ticks, procVars, histVars>>

\* The send_message calls that have returned a message id.
Sent == {x \in returned : x.op = "send_message"}

\* send_message by a task that runs beside others.  The INSERT is one
\* statement on the pool: it draws the id from the sequence when it runs,
\* and its row is visible to other statements once it has committed.
\* local.completed remembers which calls had returned when this one began.
SendMessageInsert(p, caller, chat_id, text) ==
    /\ pc[p] = "idle"
    /\ is_user_in_chat(chat_id, caller)
    /\ tx' = [tx EXCEPT ![p].message_ins =
                 {create_message(message_seq, chat_id, caller, text)}]
    /\ message_seq' = message_seq + 1
    /\ local' = [local EXCEPT ![p] =
          [NoLocal EXCEPT !.caller = caller, !.chat_id = chat_id,
                          !.completed = {x.message_id : x \in Sent}]]
    /\ pc' = [pc EXCEPT ![p] = "send_commit"]
    /\ last' = NoLast
    /\ UNCHANGED <<userVars, chats, chats_members, chat_seq, messages, sessions,
                   nextSid, nextTok, now, ticks, histVars>>

\* The INSERT commits and send_message returns the id.
SendMessageCommit(p) ==
    /\ pc[p] = "send_commit"
    /\ messages' = messages \cup tx[p].message_ins
    /\ returned' = returned \cup
          {[op |-> "send_message", kind |-> "Ok", user_id |-> local[p].caller,
            chat_id |-> local[p].chat_id, message_id |-> m.id,
            began_after |-> local[p].completed,
            completed_after |-> {x.message_id : x \in Sent}] :
               m \in tx[p].message_ins}
    /\ tx' = [tx EXCEPT ![p] = EmptyTx]
    /\ local' = [local EXCEPT ![p] = NoLocal]
    /\ pc' = [pc EXCEPT ![p] = "idle"]
    /\ last' = NoLast
    /\ UNCHANGED <<userVars, chats, chats_members, chat_seq, message_seq, sessions,
                   nextSid, nextTok, now, ticks, rotated, removed, overlapped>>

\* SELECT ... FROM messages WHERE chat_id = $1 ORDER BY messages.id
\* LIMIT $2 OFFSET ($3 - 1) * $2: the ids, in order.
RECURSIVE Ascending(_)
Ascending(ids) ==
    IF ids = {} THEN <<>>
    ELSE LET least == CHOOSE x \in ids : \A y \in ids : x <= y
         IN <<least>> \o Ascending(ids \ {least})

\* A listing that leaves out WHERE messages.chat_id = $1.
list_messages_of_every_chat(chat_id, page_size, page_num) ==
    LET all == Ascending({m.id : m \in messages})
        offset == (page_num - 1) * page_size
    IN SubSeq(all, offset + 1,
              IF offset + page_size < Len(all) THEN offset + page_size ELSE Len(all))

list_messages_for_user(chat_id, page_size, page_num) ==
    LET all == Ascending({m.id : m \in {r \in messages : r.chat_id = chat_id}})
        offset == (page_num - 1) * page_size
    IN SubSeq(all, offset + 1,
              IF offset + page_size < Len(all) THEN offset + page_size ELSE Len(all))

\* DbConnection::list_messages: NotFound for a caller who is not a member.
list_messages(user_id, chat_id, page_size, page_num) ==
    IF ~is_user_in_chat(chat_id, user_id)
    THEN [kind |-> "NotFound", messages |-> <<>>]
    ELSE [kind |-> "Ok", messages |-> list_messages_for_user(chat_id, page_size, page_num)]

ListMessages(user_id, chat_id, page_size, page_num) ==
    /\ last' = [Last("list_messages",
                     list_messages(user_id, chat_id, page_size, page_num).kind)
                   EXCEPT !.user_id = user_id, !.chat_id = chat_id]
    /\ UNCHANGED <<userVars, chatVars, sessions, nextSid, nextTok, now, ticks,
                   procVars, histVars>>

----------------------------------------------------------------------------
(* models/message.rs and the send_message handler (server/router.rs 129-144) *)

MESSAGE_TEXT_MAX_LENGTH == 4096

\* A validation that looks for the empty text without trimming.
validate_message_text_untrimmed(text) ==
    IF Len(text) = 0 THEN "InvalidInput"
    ELSE IF Len(text) > MESSAGE_TEXT_MAX_LENGTH THEN "LimitExceeded"
    ELSE "Ok"

\* validate_message_text: text.trim().is_empty(), then text.len() in bytes.
validate_message_text(text) ==
    IF Len(Trim(text)) = 0 THEN "InvalidInput"
    ELSE IF Len(text) > MESSAGE_TEXT_MAX_LENGTH THEN "LimitExceeded"
    ELSE "Ok"

\* The handler: validate_message_text(&payload.text)?, then
\* DbConnection::send_message.
RouterSendMessage(caller, chat_id, text) ==
    IF validate_message_text(text) # "Ok"
    THEN /\ last' = [Last("send_message", validate_message_text(text)) EXCEPT
                        !.user_id = caller, !.chat_id = chat_id]
         /\ UNCHANGED <<userVars, chatVars, sessions, nextSid, nextTok, now, ticks,
                        procVars, histVars>>
    ELSE SendMessage(caller, chat_id, text)

----------------------------------------------------------------------------
(* models/listing.rs *)

DEFAULT_LIMIT == 100
DEFAULT_PAGE == 1
MAX_LISTING_ELEMENTS == 200

\* Option<T>: None is the empty sequence, Some(v) the sequence of v.
Some(v) == <<v>>
is_some(opt) == Len(opt) = 1
unwrap_or(opt, default) == IF is_some(opt) THEN opt[1] ELSE default

\* i32::to_string / i64::to_string: the decimal digits, "-" before a
\* negative number.
RECURSIVE to_string(_)
to_string(n) ==
    IF n < 0 THEN "-" \o to_string(0 - n)
    ELSE IF n < 10 THEN SubSeq("0123456789", n + 1, n + 1)
    ELSE to_string(n \div 10) \o SubSeq("0123456789", (n % 10) + 1, (n % 10) + 1)

ListingQuery(limit, page, offset) == [offset |-> offset, limit |-> limit, page |-> page]

\* What from_query returns: Ok(Page{..}), Ok(Offset{..}) or the error with
\* the value it carries.
ListingMode(kind, limit, page, offset, value) ==
    [kind |-> kind, limit |-> limit, page |-> page, offset |-> offset, value |-> value]

ListingError(kind, value) == ListingMode(kind, None, None, None, value)

validate_limit(limit) ==
    IF limit < 1 THEN ListingError("InvalidInput", to_string(limit))
    ELSE IF limit > MAX_LISTING_ELEMENTS THEN ListingError("LimitExceeded", "")
    ELSE ListingError("Ok", "")

validate_page(page) ==
    IF page < 1 THEN ListingError("InvalidInput", to_string(page))
    ELSE ListingError("Ok", "")

validate_message_offset(offset) ==
    IF offset < 0 THEN ListingError("InvalidInput", to_string(offset))
    ELSE ListingError("Ok", "")

\* A from_query that looks at the mode before it validates the limit.
from_query_mode_first(query) ==
    LET limit == unwrap_or(query.limit, DEFAULT_LIMIT) IN
    IF is_some(query.offset)
    THEN IF is_some(query.page) THEN ListingError("InvalidInput", "page")
         ELSE IF validate_message_offset(query.offset[1]).kind # "Ok"
              THEN validate_message_offset(query.offset[1])
         ELSE IF validate_limit(limit).kind # "Ok" THEN validate_limit(limit)
         ELSE ListingMode("Offset", limit, None, query.offset[1], "")
    ELSE LET page == unwrap_or(query.page, DEFAULT_PAGE) IN
         IF validate_page(page).kind # "Ok" THEN validate_page(page)
         ELSE IF validate_limit(limit).kind # "Ok" THEN validate_limit(limit)
         ELSE ListingMode("Page", limit, page, None, "")

\* ListingMode::from_query
from_query(query) ==
    LET limit == unwrap_or(query.limit, DEFAULT_LIMIT) IN
    IF validate_limit(limit).kind # "Ok" THEN validate_limit(limit)
    ELSE IF is_some(query.offset)
    THEN IF is_some(query.page) THEN ListingError("InvalidInput", "page")
         ELSE IF validate_message_offset(query.offset[1]).kind # "Ok"
              THEN validate_message_offset(query.offset[1])
         ELSE ListingMode("Offset", limit, None, query.offset[1], "")
    ELSE LET page == unwrap_or(query.page, DEFAULT_PAGE) IN
         IF validate_page(page).kind # "Ok" THEN validate_page(page)
         ELSE ListingMode("Page", limit, page, None, "")

\* A handler parses its query string.
FromQuery(query) ==
    /\ last' = [op |-> "from_query", kind |-> from_query(query).kind,
                query |-> query, mode |-> from_query(query)]
    /\ UNCHANGED <<userVars, chatVars, sessions, nextSid, nextTok, now, ticks,
                   procVars, histVars>>

----------------------------------------------------------------------------
(* The initial state and the specifications *)

OriginUser ==
    create_user(1, "origin", "Origin", 1, hash_password_sha256("changepassword", 1),
                "Admin", None)

\* The state init_schema and two invite_user calls by the origin user leave.
Init ==
    /\ users = {OriginUser,
                create_user(2, "user_a", "User A", 2,
                            hash_password_sha256("passfora", 2), "Regular", 1),
                create_user(3, "user_b", "User B", 3,
                            hash_password_sha256("passforb", 3), "Regular", 1)}
    /\ chats = {create_with_self_chat(1, 2).chat, create_with_self_chat(2, 3).chat}
    /\ chats_members = {create_with_self_chat(1, 2).member,
                        create_with_self_chat(2, 3).member}
    /\ messages = {}
    /\ sessions = {}
    /\ user_seq = 4 /\ chat_seq = 3 /\ message_seq = 1
    /\ nextSid = 1 /\ nextTok = 4
    /\ now = 0 /\ ticks = 0
    /\ pc = [p \in Procs |-> "idle"]
    /\ local = [p \in Procs |-> NoLocal]
    /\ tx = [p \in Procs |-> EmptyTx]
    /\ last = NoLast
    /\ returned = {}
    /\ rotated = {}
    /\ removed = {}
    /\ overlapped = {}

\* Session ids and tokens a client can present: those handed out so far and
\* one that was never handed out.
SessionIds == 0 .. (nextSid - 1)
Tokens ==
    {0} \cup {r.access_token : r \in {x \in returned : x.kind = "Ok"}}
        \cup {r.refresh_token : r \in {x \in returned : x.kind = "Ok"}}

\* The session lifecycle below the cap: login, resolve, rejected refresh, logout.
Next ==
    \/ \E alias \in {"user_a", "user_b", "non_existent"},
          password \in {"passfora", "passforb"} :
          \/ LoginBadCredentials(alias, password)
          \/ /\ nextSid <= MaxLogins
             /\ LoginCreateSession(1, alias, password)
    \/ LoginTrim(1)
    \/ LoginCommit(1)
    \/ \E session_id \in SessionIds, token \in Tokens :
          \/ RefreshReject(session_id, token)
          \/ Resolve(session_id, token)
    \/ \E session_id \in SessionIds : Logout(session_id)
    \/ /\ ticks < MaxTicks
       /\ \E d \in {ACCESS_TOKEN_TTL, REFRESH_TOKEN_TTL} : Tick(d)

Spec == Init /\ [][Next]_vars

\* Token rotation: refresh_session calls of two tasks on the sessions of user_a,
\* with logout and the clock.
NextRefresh ==
    \/ /\ nextSid <= MaxLogins
       /\ LoginCreateSession(1, "user_a", "passfora")
    \/ LoginTrim(1)
    \/ LoginCommit(1)
    \/ \E session_id \in SessionIds, token \in Tokens, p \in Procs :
          /\ RefreshesStarted < MaxRefresh
          /\ RefreshGenerate(p, session_id, token)
    \/ \E p \in Procs : RefreshUpdate(p)
    \/ \E p \in Procs : RefreshCommit(p)
    \/ \E session_id \in SessionIds : Logout(session_id)
    \/ /\ ticks < MaxTicks
       /\ \E d \in {ACCESS_TOKEN_TTL, REFRESH_TOKEN_TTL} : Tick(d)

SpecRefresh == Init /\ [][NextRefresh]_vars

\* Logins of two users up to one session beyond the cap, without refresh.
NextCap ==
    \/ \E alias \in {"user_a", "user_b", "non_existent"},
          password \in {"passfora", "passforb"} :
          \/ LoginBadCredentials(alias, password)
          \/ \E p \in Procs :
                /\ nextSid <= MAX_SESSIONS_PER_USER + 1
                /\ LoginCreateSession(p, alias, password)
    \/ \E p \in Procs : LoginTrim(p)
    \/ \E p \in Procs : LoginCommit(p)
    \/ /\ ticks < MAX_SESSIONS_PER_USER
       /\ Tick(1)

SpecCap == Init /\ [][NextCap]_vars

\* Authentication: up to the cap of sessions of user_a and user_b, resolved
\* and logged out, with refreshes until one has committed and the clock
\* standing still.
NextAuth ==
    \/ \E alias \in {"user_a", "user_b"}, password \in {"passfora", "passforb"} :
          /\ nextSid <= MAX_SESSIONS_PER_USER
          /\ LoginCreateSession(1, alias, password)
    \/ LoginTrim(1)
    \/ LoginCommit(1)
    \/ \E session_id \in SessionIds, token \in Tokens :
          \/ RefreshReject(session_id, token)
          \/ Resolve(session_id, token)
          \/ /\ rotated = {}
             /\ RefreshGenerate(2, session_id, token)
    \/ RefreshUpdate(2)
    \/ RefreshCommit(2)
    \/ \E session_id \in SessionIds : Logout(session_id)

SpecAuth == Init /\ [][NextAuth]_vars

\* Expiry: sessions of user_a, the clock, and refresh_session calls, accepted
\* until one has committed.
NextExpiry ==
    \/ /\ nextSid <= MaxLogins
       /\ LoginCreateSession(1, "user_a", "passfora")
    \/ LoginTrim(1)
    \/ LoginCommit(1)
    \/ \E session_id \in SessionIds, token \in Tokens :
          \/ RefreshReject(session_id, token)
          \/ Resolve(session_id, token)
          \/ /\ rotated = {}
             /\ RefreshGenerate(2, session_id, token)
    \/ RefreshUpdate(2)
    \/ RefreshCommit(2)
    \/ /\ ticks < MaxTicks
       /\ \E d \in {ACCESS_TOKEN_TTL, REFRESH_TOKEN_TTL} : Tick(d)

SpecExpiry == Init /\ [][NextExpiry]_vars

\* The tokens the session rows store, and one that none stores.
StoredTokens ==
    {0} \cup {s.access_token : s \in sessions} \cup {s.refresh_token : s \in sessions}

\* Refresh counters: sessions of user_a up to the cap, repeated refreshes,
\* rejected refreshes, resolves and logouts.
NextCounter ==
    \/ /\ nextSid <= MAX_SESSIONS_PER_USER
       /\ LoginCreateSession(1, "user_a", "passfora")
    \/ LoginTrim(1)
    \/ LoginCommit(1)
    \/ \E session_id \in SessionIds, token \in StoredTokens :
          \/ RefreshReject(session_id, token)
          \/ Resolve(session_id, token)
          \/ /\ RefreshesStarted < MaxRefresh
             /\ RefreshGenerate(2, session_id, token)
    \/ RefreshUpdate(2)
    \/ RefreshCommit(2)
    \/ \E session_id \in SessionIds : Logout(session_id)

SpecCounter == Init /\ [][NextCounter]_vars

\* Removal: logins of user_a up to one session beyond the cap, so that the
\* trim deletes, logouts, a refresh running beside them, and resolves and
\* refreshes of the ids that were removed.
NextRemoved ==
    \/ /\ nextSid <= MAX_SESSIONS_PER_USER + 1
       /\ LoginCreateSession(1, "user_a", "passfora")
    \/ LoginTrim(1)
    \/ LoginTrimResume(1)
    \/ LoginCommit(1)
    \/ \E session_id \in SessionIds, token \in Tokens :
          /\ rotated = {}
          /\ RefreshGenerate(2, session_id, token)
    \/ RefreshUpdate(2)
    \/ RefreshCommit(2)
    \/ \E r \in removed, token \in Tokens :
          \/ RefreshReject(r.session_id, token)
          \/ Resolve(r.session_id, token)
    \/ \E session_id \in SessionIds : Logout(session_id)

SpecRemoved == Init /\ [][NextRemoved]_vars

\* The session ids and tokens the codec is given, and the buffers: every
\* packed pair, cut off at every length.
PackIds == {as_bytes(n) : n \in 0 .. MaxPackId} \cup {as_bytes(256 + MaxPackId)}
PackTokens == UNION {[1 .. n -> Bytes] : n \in 0 .. MaxTokenLen}
Buffers ==
    UNION {{SubSeq(pack_session_id_and_token(session_id, token), 1, n) :
               n \in 0 .. (sid_len + Len(token))} :
           session_id \in PackIds, token \in PackTokens}

\* The token codec.
NextPack ==
    \/ \E session_id \in PackIds, token \in PackTokens : Pack(session_id, token)
    \/ \E packed \in Buffers : Unpack(packed)

SpecPack == Init /\ [][NextPack]_vars

InviteUserRequest(alias, display_name, role, initial_password) ==
    [alias |-> alias, display_name |-> display_name, role |-> role,
     initial_password |-> initial_password]

InviteRequests ==
    {InviteUserRequest("user_c", "User C", "Regular", "passforc"),
     InviteUserRequest("user_a", "User A", "Regular", "passfora"),
     InviteUserRequest("user c", "User C", "Regular", "passforc")}

UserIds == 1 .. (user_seq - 1)
ChatIds == 0 .. (chat_seq - 1)

\* Invitations and private chats, by two tasks.
NextChat ==
    \/ \E caller \in {1, 2}, request \in InviteRequests :
          \/ InviteReject(caller, request)
          \/ \E p \in Procs :
                /\ user_seq <= MaxUserId
                /\ InviteCreateUser(p, caller, request)
    \/ \E p \in Procs : InviteSelfChat(p)
    \/ \E p \in Procs : InviteCommit(p)
    \/ \E caller \in {2, 3}, recipient_alias \in {"user_a", "user_b", "non_existent"} :
          \/ PrivateChatReject(caller, recipient_alias)
          \/ \E p \in Procs :
                /\ chat_seq <= MaxChatId
                /\ PrivateChatCreate(p, caller, recipient_alias)
    \/ \E p \in Procs : PrivateChatCommit(p)
    \/ \E p \in Procs : Rollback(p)

SpecChat == Init /\ [][NextChat]_vars

\* Requests with an invalid alias, display name or password beside the valid
\* and the duplicate one.
InviteRequestsAll ==
    InviteRequests \cup
    {InviteUserRequest("user_d", " User D", "Regular", "passford"),
     InviteUserRequest("user_e", "User E", "Regular", "short"),
     InviteUserRequest("", "User F", "Admin", "passforf")}

\* Invitations only, by two tasks, with every kind of request.
NextInvite ==
    \/ \E caller \in UserIds \cup {0}, request \in InviteRequestsAll :
          \/ InviteReject(caller, request)
          \/ \E p \in Procs :
                /\ user_seq <= MaxUserId
                /\ InviteCreateUser(p, caller, request)
    \/ \E p \in Procs : InviteSelfChat(p)
    \/ \E p \in Procs : InviteCommit(p)
    \/ \E p \in Procs : Rollback(p)

SpecInvite == Init /\ [][NextInvite]_vars

\* Messages in the self chats and in a private chat of user_a and user_b.
NextMessages ==
    \/ /\ chat_seq <= MaxChatId
       /\ PrivateChatCreate(1, 2, "user_b")
    \/ PrivateChatCommit(1)
    \/ \E caller \in {2, 3}, chat_id \in ChatIds :
          \/ /\ is_user_in_chat(chat_id, caller) => message_seq <= MaxMessageId
             /\ SendMessage(caller, chat_id, "hello")
          \/ ListMessages(caller, chat_id, 100, 1)

SpecMessages == Init /\ [][NextMessages]_vars

\* The queries: every field absent or present, below, at and above its limits.
Limits == {<<>>, Some(-1), Some(0), Some(1), Some(25), Some(200), Some(201)}
Pages == {<<>>, Some(-1), Some(0), Some(1), Some(2)}
Offsets == {<<>>, Some(-1), Some(0), Some(42)}

NextListing ==
    \E limit \in Limits, page \in Pages, offset \in Offsets :
        FromQuery(ListingQuery(limit, page, offset))

SpecListing == Init /\ [][NextListing]_vars

\* A private chat of user_a and user_b; both send to it and to their self
\* chats, from two tasks, and list.
NextOrder ==
    \/ /\ chat_seq <= MaxChatId
       /\ PrivateChatCreate(1, 2, "user_b")
    \/ PrivateChatCommit(1)
    \/ \E p \in Procs, caller \in {2, 3}, chat_id \in ChatIds :
          /\ message_seq <= MaxMessageId
          /\ SendMessageInsert(p, caller, chat_id, "hello")
    \/ \E p \in Procs : SendMessageCommit(p)
    \/ \E caller \in {2, 3}, chat_id \in ChatIds :
          ListMessages(caller, chat_id, 100, 1)

SpecOrder == Init /\ [][NextOrder]_vars

\* Refused refreshes: a session of user_a, refresh_session calls of two
\* tasks with every token handed out so far, and the clock.
NextReject ==
    \/ /\ nextSid <= MaxLogins
       /\ LoginCreateSession(1, "user_a", "passfora")
    \/ LoginTrim(1)
    \/ LoginCommit(1)
    \/ \E session_id \in SessionIds, token \in Tokens :
          \/ RefreshReject(session_id, token)
          \/ \E p \in Procs :
                /\ RefreshesStarted < MaxRefresh
                /\ RefreshGenerate(p, session_id, token)
    \/ \E p \in Procs : RefreshUpdate(p)
    \/ \E p \in Procs : RefreshCommit(p)
    \/ /\ ticks < MaxTicks
       /\ Tick(REFRESH_TOKEN_TTL)

SpecReject == Init /\ [][NextReject]_vars

\* Group chats beside private chats: user_a creates groups, user_a and
\* user_b add members to chats and ask for private chats.
NextGroup ==
    \/ /\ chat_seq <= MaxChatId
       /\ GroupChatCreate(2, "group")
    \/ \E caller \in {2, 3}, chat_id \in ChatIds,
          members \in {<<3>>, <<2, 3>>, <<3, 3>>} :
          AddMembersToGroupChat(caller, chat_id, members)
    \/ \E caller \in {2, 3}, recipient_alias \in {"user_a", "user_b"} :
          \/ PrivateChatReject(caller, recipient_alias)
          \/ /\ chat_seq <= MaxChatId
             /\ PrivateChatCreate(1, caller, recipient_alias)
    \/ PrivateChatCommit(1)

SpecGroup == Init /\ [][NextGroup]_vars

\* Logins of user_a and user_b, by two tasks, up to two sessions beyond the
\* cap, so that one user is trimmed while the other holds sessions.
NextTrim ==
    \/ \E credentials \in {<<"user_a", "passfora">>, <<"user_b", "passforb">>},
          p \in Procs :
          /\ nextSid <= MAX_SESSIONS_PER_USER + 2
          /\ LoginCreateSession(p, credentials[1], credentials[2])
    \/ \E p \in Procs : LoginTrim(p)
    \/ \E p \in Procs : LoginTrimResume(p)
    \/ \E p \in Procs : LoginCommit(p)
    \/ /\ ticks < MaxTicks
       /\ Tick(1)

SpecTrim == Init /\ [][NextTrim]_vars

\* Members added to a group and to a self chat by two tasks: lists with
\* the caller, with a user twice, with a member and with a user that does
\* not exist.
NextMembers ==
    \/ /\ chat_seq <= MaxChatId - 1
       /\ GroupChatCreate(2, "group")
    \/ \E caller \in {2, 3}, chat_id \in {1, 3},
          members \in {<<2, 3>>, <<1, 3>>, <<3, 3>>, <<1, 9>>} :
          \/ AddMembersReject(caller, chat_id, members)
          \/ \E p \in Procs :
                /\ Cardinality(returned) < MaxAdds
                /\ AddMembersBegin(p, caller, chat_id, members)
    \/ \E p \in Procs : AddMemberInsert(p)
    \/ \E p \in Procs : AddMembersCommit(p)

SpecMembers == Init /\ [][NextMembers]_vars

\* Invitations of an Admin and of a Regular user, by every user, from two
\* tasks.
NextRoles ==
    \/ \E caller \in UserIds,
          request \in {InviteUserRequest("user_c", "User C", "Admin", "passforc"),
                       InviteUserRequest("user_d", "User D", "Regular", "passford")} :
          \/ InviteReject(caller, request)
          \/ \E p \in Procs :
                /\ user_seq <= MaxUserId
                /\ InviteCreateUser(p, caller, request)
    \/ \E p \in Procs : InviteSelfChat(p)
    \/ \E p \in Procs : InviteCommit(p)
    \/ \E p \in Procs : Rollback(p)

SpecRoles == Init /\ [][NextRoles]_vars

\* Every operation that writes chats or chats_members, from two tasks: an
\* invitation, private chats, group chats and added members.
NextVisible ==
    \/ \E p \in Procs :
          /\ user_seq <= MaxUserId - 1
          /\ InviteCreateUser(p, 1, InviteUserRequest("user_c", "User C", "Regular", "passforc"))
    \/ \E p \in Procs : InviteSelfChat(p)
    \/ \E p \in Procs : InviteCommit(p)
    \/ \E p \in Procs, recipient_alias \in {"user_a", "user_b"} :
          /\ chat_seq <= MaxChatId
          /\ PrivateChatCreate(p, 2, recipient_alias)
    \/ \E p \in Procs : PrivateChatCommit(p)
    \/ \E p \in Procs, caller \in {3, 9} :
          /\ chat_seq <= MaxChatId
          /\ GroupChatInsert(p, caller, "group")
    \/ \E p \in Procs : GroupChatAddOwner(p)
    \/ \E p \in Procs : GroupChatCommit(p)
    \/ \E p \in Procs, chat_id \in {2, 3}, members \in {<<2>>, <<4>>, <<9>>} :
          /\ Cardinality(returned) < MaxAdds
          /\ AddMembersBegin(p, 3, chat_id, members)
    \/ \E p \in Procs : AddMemberInsert(p)
    \/ \E p \in Procs : AddMembersCommit(p)
    \/ \E p \in Procs : Rollback(p)

SpecVisible == Init /\ [][NextVisible]_vars

\* s repeated 2^k times.
RECURSIVE Doubled(_, _)
Doubled(str, k) == IF k = 0 THEN str ELSE Doubled(str \o str, k - 1)

\* Message texts: a plain one, the empty one, one of whitespace only, one of
\* exactly MESSAGE_TEXT_MAX_LENGTH bytes and one a byte longer.
LongestText == Doubled("a", 12)
Texts == {"hello", "", " \t ", LongestText, LongestText \o "a"}

\* Messages sent through the handler and straight through the DbConnection,
\* to the self chat of user 2 and to a chat that does not exist.
NextSend ==
    \E caller \in {2, 3}, chat_id \in {None, 1}, text \in Texts :
        /\ is_user_in_chat(chat_id, caller) => message_seq <= MaxMessageId
        /\ \/ RouterSendMessage(caller, chat_id, text)
           \/ SendMessage(caller, chat_id, text)

SpecSend == Init /\ [][NextSend]_vars

----------------------------------------------------------------------------
(* Properties of token rotation *)

RefreshResults == {x \in returned : x.op = "refresh"}

\* Session id was deleted, by logout or by a trim.
Removed(session_id) == \E r \in removed : r.session_id = session_id

\* A refresh of session_id that read counter has succeeded.
RefreshedAt(session_id, counter) ==
    \E z \in RefreshResults :
        z.kind = "Ok" /\ z.session_id = session_id /\ z.counter = counter

\* C1: of two refresh_session calls that presented the current refresh token
\* of the same session and read the row at the same refresh_counter, with the
\* session not removed, exactly one returns a TokenExchange and the other
\* Interrupted; the row then has the counter increased by exactly one and holds
\* the winner's tokens (until the next successful refresh).  Two calls never
\* both succeed at one counter value.
C1_ExactlyOneRefreshWins ==
    \A x \in RefreshResults, y \in RefreshResults :
        (x # y /\ x.session_id = y.session_id /\ x.counter = y.counter)
        => /\ ~(x.kind = "Ok" /\ y.kind = "Ok")
           /\ ~Removed(x.session_id)
                => /\ {x.kind, y.kind} = {"Ok", "Interrupted"}
                   /\ (x.kind = "Ok" /\ ~RefreshedAt(x.session_id, x.counter + 1))
                        => \E s \in sessions :
                              /\ s.id = x.session_id
                              /\ s.refresh_counter = x.counter + 1
                              /\ s.refresh_token = x.refresh_token
                              /\ s.access_token = x.access_token

\* Two calls that read the same counter have both returned, one with the
\* tokens the row now holds.
C1_Witness ==
    \E x \in RefreshResults, y \in RefreshResults :
        /\ x.session_id = y.session_id /\ x.counter = y.counter
        /\ x.kind = "Ok" /\ y.kind = "Interrupted"
        /\ \E s \in sessions : s.id = x.session_id /\ s.refresh_token = x.refresh_token

\* C2: after a refresh_session on a session has succeeded, in every later
\* state the replaced access token does not resolve (TokenNotFound) and the
\* replaced refresh token does not refresh (BadCredentials), while the access
\* token the refresh returned resolves to the session's user until it expires
\* or the session is removed or refreshed again.
C2_RotatedTokensFail ==
    /\ \A r \in rotated :
          /\ resolve_session(r.session_id, r.access_token).kind = "TokenNotFound"
          /\ refresh_session_check(r.session_id, r.refresh_token) = "BadCredentials"
    /\ \A x \in RefreshResults :
          (/\ x.kind = "Ok"
           /\ current_time < x.access_token_expires_at
           /\ ~Removed(x.session_id)
           /\ ~RefreshedAt(x.session_id, x.counter + 1))
          => /\ resolve_session(x.session_id, x.access_token)
                    = [kind |-> "Ok", user_id |-> x.user_id]
             /\ \E l \in returned :
                    l.op = "login" /\ l.session_id = x.session_id /\ l.user_id = x.user_id

\* A refresh has replaced a token pair of a session that is still there, and
\* the access token it returned is the one that resolves.
C2_Witness ==
    \E r \in rotated, x \in RefreshResults :
        /\ x.kind = "Ok" /\ x.session_id = r.session_id
        /\ resolve_session(x.session_id, x.access_token).kind = "Ok"
        /\ resolve_session(r.session_id, r.access_token).kind = "TokenNotFound"

----------------------------------------------------------------------------
(* Properties of login and logout *)

Aliases == {"user_a", "user_b", "non_existent"}
Passwords == {"passfora", "passforb"}

\* The alias and password invite_user was given for each invited user.
Invited == {<<"user_a", "passfora">>, <<"user_b", "passforb">>}

\* Every pair other than an invited user's alias with that user's password
\* fails the credential check.
BadPairsRejected ==
    \A alias \in Aliases, password \in Passwords :
        <<alias, password>> \notin Invited => login_check(alias, password) = None

\* C6: login returns BadCredentials when the alias matches no user and when
\* the password is not the one of the user with that alias (another user's
\* valid password included); the call creates no session row and changes or
\* removes none, committed or pending.
C6_LoginBadCredentials ==
    [][/\ BadPairsRejected /\ BadPairsRejected'
          /\ \A alias \in Aliases, password \in Passwords :
            LoginBadCredentials(alias, password)
            => /\ last'.op = "login" /\ last'.kind = "BadCredentials"
               /\ UNCHANGED <<sessions, tx, nextSid>>]_vars

\* A login was just rejected while a session exists.
C6_Witness ==
    /\ last.op = "login" /\ last.kind = "BadCredentials"
    /\ sessions # {}

\* No token resolves for a session id that was logged out.
LoggedOutNotFound ==
    \A r \in removed, token \in Tokens :
        r.by = "logout" => resolve_session(r.session_id, token).kind = "TokenNotFound"

\* C8: logout is idempotent.  After logout(session_id) no access token
\* resolves for that id (TokenNotFound); a logout of an id that has no row,
\* because it was logged out before or never existed, returns Ok and leaves
\* every table unchanged.
C8_LogoutIdempotent ==
    [][/\ LoggedOutNotFound /\ LoggedOutNotFound'
          /\ \A session_id \in SessionIds :
            Logout(session_id)
            => /\ last'.op = "logout" /\ last'.kind = "Ok"
               /\ get_access_token(session_id)' = {}
               /\ get_access_token(session_id) = {}
                    => UNCHANGED <<users, chats, chats_members, messages,
                                   sessions, tx>>]_vars

\* A logout of a session that an earlier logout had removed has returned Ok
\* without deleting a row.
C8_Witness ==
    /\ last.op = "logout" /\ last.kind = "Ok" /\ last.rows = 0
    /\ \E r \in removed : r.by = "logout" /\ r.session_id = last.session_id

----------------------------------------------------------------------------
(* Properties of the session cap *)

SessionsOf(user_id) == {s \in sessions : s.user_id = user_id}

\* The TokenExchange payloads the committed logins of user_id returned.
LoginsOf(user_id) == {x \in returned : x.op = "login" /\ x.user_id = user_id}

\* The earliest of the logins in L.
FirstLogin(L) == CHOOSE x \in L : \A y \in L : x.session_id <= y.session_id

\* No session of user_id was refreshed or logged out.
Undisturbed(user_id) ==
    /\ \A x \in RefreshResults : x.user_id # user_id
    /\ \A x \in LoginsOf(user_id), r \in removed :
          r.session_id = x.session_id => r.by = "trim"

\* user_id has logged in cap + 1 times, one login after the other.
SequentialLoginsPastCap(user_id) ==
    /\ Cardinality(LoginsOf(user_id)) = MAX_SESSIONS_PER_USER + 1
    /\ user_id \notin overlapped
    /\ Undisturbed(user_id)

\* C3: in every committed state every user has at most MAX_SESSIONS_PER_USER
\* session rows, under any interleaving of logins.
C3_SessionCap ==
    \A u \in users : Cardinality(SessionsOf(u.id)) <= MAX_SESSIONS_PER_USER

\* What the trim of a login about to run keeps: the cap rows of the user with
\* the greatest access_token_expires_at, all rows when there are no more.
TrimKeepsGreatest ==
    \A p \in Procs :
        pc[p] = "login_trim"
        => LET mine == {s \in SessionsView(p) : s.user_id = local[p].user_id} IN
           \A del \in trim_sessions_for_user(SessionsView(p), local[p].user_id,
                                              MAX_SESSIONS_PER_USER) :
               LET kept == {s \in mine : s.id \notin del} IN
               /\ del \subseteq Ids(mine)
               /\ Cardinality(kept) =
                     IF Cardinality(mine) > MAX_SESSIONS_PER_USER
                     THEN MAX_SESSIONS_PER_USER ELSE Cardinality(mine)
               /\ \A x \in mine \ kept, y \in kept :
                     x.access_token_expires_at <= y.access_token_expires_at

DistinctInstants(L) ==
    \A x \in L, y \in L : x # y => x.access_token_expires_at # y.access_token_expires_at

C7_LoginResolves ==
    [][\A p \in Procs :
          LoginCommit(p)
          => \A l \in {local[p]} :
                current_time < l.access_token_expires_at
                => resolve_session(l.session_id, l.access_token)'
                       = [kind |-> "Ok", user_id |-> l.user_id]]_vars

----------------------------------------------------------------------------
(* Properties of chats and invitations *)

alias_of(user_id) == (CHOOSE u \in users : u.id = user_id).alias

\* user_id has a membership row in chat_id.
Member(user_id, chat_id) ==
    \E role \in {"Owner", "Moderator", "Member"} :
        [chat_id |-> chat_id, user_id |-> user_id, role |-> role] \in chats_members

\* The Private chats both a and b are members of.
PrivateChatsOf(a, b) ==
    {c \in chats : c.kind = "Private" /\ Member(a, c.id) /\ Member(b, c.id)}

\* C5: once create_private_chat(a, alias_of(b)) has succeeded for distinct a
\* and b, a later create_private_chat(b, alias_of(a)) and a later repeat of
\* create_private_chat(a, alias_of(b)) fail with AlreadyExists, and a and b
\* have exactly one Private chat with each other.
C5_PrivateChatSymmetric ==
    \A x \in {r \in returned : r.op = "create_private_chat" /\ r.kind = "Ok"} :
        /\ create_private_chat_check(x.recipient, alias_of(x.user_id)) = "AlreadyExists"
        /\ create_private_chat_check(x.user_id, alias_of(x.recipient)) = "AlreadyExists"
        /\ Cardinality(PrivateChatsOf(x.user_id, x.recipient)) = 1

\* list_messages gives NotFound to every user about every chat id the user
\* has no membership in.
NonMemberListsNotFound ==
    \A user_id \in UserIds, chat_id \in ChatIds :
        ~Member(user_id, chat_id)
        => list_messages(user_id, chat_id, 100, 1).kind = "NotFound"

\* C9: a user who is not a member of a chat, existing or not, gets NotFound
\* from send_message and from list_messages on it, and the attempt leaves the
\* messages as they were.
C9_NonMemberNotFound ==
    [][/\ NonMemberListsNotFound /\ NonMemberListsNotFound'
          /\ \A user_id \in UserIds, chat_id \in ChatIds :
            /\ (~Member(user_id, chat_id) /\ SendMessage(user_id, chat_id, "hello"))
                  => (last'.kind = "NotFound" /\ UNCHANGED <<messages, message_seq>>)
            /\ ListMessages(user_id, chat_id, 100, 1)
                  => UNCHANGED <<messages, message_seq>>]_vars

\* A user who is not in an existing chat that holds a message has just been
\* refused by send_message.
C9_Witness ==
    /\ last.op = "send_message" /\ last.kind = "NotFound"
    /\ \E c \in chats : c.id = last.chat_id
    /\ \E m \in messages : m.chat_id = last.chat_id

\* The memberships that make user_id the owner of a self chat.
SelfChatsOf(user_id) ==
    {m \in chats_members :
        /\ m.user_id = user_id /\ m.role = "Owner"
        /\ \E c \in chats : c.id = m.chat_id /\ c.kind = "WithSelf"}

InviteResults == {x \in returned : x.op = "invite_user"}

\* No row of the tables carries the user id or the chat id.
NoTrace(user_id, chat_id) ==
    /\ \A u \in users : u.id # user_id
    /\ \A c \in chats : c.id # chat_id
    /\ \A m \in chats_members : m.user_id # user_id /\ m.chat_id # chat_id

\* C10: invite_user is atomic.  In every committed state each invited user
\* owns exactly one WithSelf chat, the one its invite_user call created; an
\* invite_user call that has not committed, or that failed at any step, has
\* no user, chat or membership row in the tables.
C10_InviteAtomic ==
    /\ \A u \in users : u.invited_by # None => Cardinality(SelfChatsOf(u.id)) = 1
    /\ \A x \in InviteResults :
          IF x.kind = "Ok"
          THEN /\ \E u \in users : u.id = x.user_id
               /\ SelfChatsOf(x.user_id) = {add_member_to_chat(x.user_id, x.chat_id, "Owner")}
          ELSE NoTrace(x.user_id, x.chat_id)
    /\ \A p \in Procs :
          pc[p] \in {"invite_self_chat", "invite_commit"}
          => NoTrace(local[p].user_id, local[p].chat_id)

\* One invite_user call has committed its user and self chat, and another has
\* failed after inserting its user.
C10_Witness ==
    \E x \in InviteResults, y \in InviteResults :
        /\ x.kind = "Ok" /\ Cardinality(SelfChatsOf(x.user_id)) = 1
        /\ y.kind = "Sqlx" /\ y.chat_id # None /\ NoTrace(y.user_id, y.chat_id)

----------------------------------------------------------------------------
(* Properties of invite_user *)

\* The callers of the model whose role is not Admin.
NonAdmins == {u.id : u \in {x \in users : x.role # "Admin"}}

\* C11: invite_user by a caller whose role is not Admin fails with
\* InsufficientPermissions(current = the caller's role, required = Admin),
\* whether or not alias, display name and password are valid, and creates no
\* user, chat or membership, committed or pending.
C11_NonAdminInviteRejected ==
    [][\A caller \in NonAdmins, request \in InviteRequestsAll :
          /\ \A p \in Procs : ~InviteCreateUser(p, caller, request)
          /\ InviteReject(caller, request)
                => /\ last'.kind = "InsufficientPermissions"
                   /\ last'.current = current_role(caller)
                   /\ last'.required = "Admin"
                   /\ UNCHANGED <<users, chats, chats_members, user_seq, chat_seq, tx>>]_vars

\* A Regular caller was just refused with InsufficientPermissions on a
\* request whose alias is not valid.
C11_Witness ==
    /\ last.op = "invite_user" /\ last.kind = "InsufficientPermissions"
    /\ last.current = "Regular" /\ last.required = "Admin"
    /\ validate_user_alias(last.alias) # "Ok"

----------------------------------------------------------------------------
(* Properties of authentication *)

\* The TokenExchange payloads login and refresh_session have returned.
Issued == {x \in returned : x.kind = "Ok" /\ x.op \in {"login", "refresh"}}

\* resolve_session and the checks of refresh_session accept a pair only if
\* the row with that id stores that token, and tokens do not cross sessions
\* or kinds.
BothHalvesMatch ==
    /\ \A session_id \in SessionIds, token \in Tokens :
          /\ resolve_session(session_id, token).kind = "Ok"
                => \E s \in sessions :
                      /\ s.id = session_id /\ s.access_token = token
                      /\ resolve_session(session_id, token).user_id = s.user_id
          /\ refresh_session_check(session_id, token) = "Ok"
                => \E s \in sessions : s.id = session_id /\ s.refresh_token = token
    /\ \A x \in Issued, session_id \in SessionIds :
          /\ session_id # x.session_id
                => /\ resolve_session(session_id, x.access_token).kind # "Ok"
                   /\ refresh_session_check(session_id, x.refresh_token) # "Ok"
          /\ resolve_session(session_id, x.refresh_token).kind # "Ok"
          /\ refresh_session_check(session_id, x.access_token) # "Ok"

\* C12: resolve_session(sid, t) returns a user id only if row sid stores
\* access token t, and then that row's user_id; refresh_session(sid, t) gets
\* past its checks, and succeeds, only if row sid stores refresh token t; a
\* token of one session is refused under another session's id, a refresh
\* token is refused as an access token and an access token as a refresh token.
C12_BothHalvesMustMatch ==
    /\ BothHalvesMatch
    /\ (last.op = "resolve" /\ last.kind = "Ok")
          => \E s \in sessions : s.id = last.session_id /\ s.user_id = last.user_id
    /\ \A p \in Procs :
          pc[p] \in {"refresh_update", "refresh_commit"}
          => \E x \in Issued :
                /\ x.session_id = local[p].session_id
                /\ local[p].user_id = x.user_id

\* Two sessions exist, one of them refreshed, and a resolve under the id of
\* one with a token that was issued for the other has just been refused.
C12_Witness ==
    /\ last.op = "resolve" /\ last.kind = "TokenNotFound"
    /\ \E x \in Issued, s \in sessions :
          /\ x.session_id # last.session_id /\ s.id = last.session_id
          /\ \E t \in sessions : t.id = x.session_id /\ t.access_token = x.access_token
    /\ \E x \in Issued : x.op = "refresh"

\* C13: resolve_session returns TokenNotFound when no session has the id or
\* the presented token differs from the stored access token, expired or not;
\* TokenExpired when the token matches and access_token_expires_at <= now,
\* the expiry instant included; and the session's user_id otherwise.
C13_ResolveOutcomes ==
    /\ \A session_id \in SessionIds, token \in Tokens :
          LET r == resolve_session(session_id, token)
              rows == {s \in sessions : s.id = session_id}
          IN /\ rows = {} => r.kind = "TokenNotFound"
             /\ \A s \in rows :
                   /\ token # s.access_token => r.kind = "TokenNotFound"
                   /\ (token = s.access_token /\ s.access_token_expires_at <= now)
                         => r.kind = "TokenExpired"
                   /\ (token = s.access_token /\ s.access_token_expires_at > now)
                         => r = [kind |-> "Ok", user_id |-> s.user_id]
    /\ last.op = "resolve"
          => LET rows == {s \in sessions : s.id = last.session_id}
             IN /\ last.kind \in {"TokenNotFound", "TokenExpired", "Ok"}
                /\ last.kind = "TokenExpired"
                      => \E s \in rows : s.access_token_expires_at <= now
                /\ last.kind = "Ok"
                      => \E s \in rows : /\ s.access_token_expires_at > now
                                          /\ s.user_id = last.user_id

\* A resolve at the very instant the access token expires has just returned
\* TokenExpired, and a wrong token for that expired session gets TokenNotFound.
C13_Witness ==
    /\ last.op = "resolve" /\ last.kind = "TokenExpired"
    /\ \E s \in sessions :
          /\ s.id = last.session_id /\ s.access_token_expires_at = now
          /\ resolve_session(s.id, s.refresh_token).kind = "TokenNotFound"

\* What refresh_session answers before it rotates, for every pair a client
\* can present.
RefreshOutcomes ==
    /\ \A session_id \in SessionIds, token \in Tokens :
          LET r == refresh_session_check(session_id, token)
              rows == {s \in sessions : s.id = session_id}
          IN /\ rows = {} => r = "BadCredentials"
             /\ \A s \in rows :
                   /\ token # s.refresh_token => r = "BadCredentials"
                   /\ (token = s.refresh_token /\ s.refresh_token_expires_at <= now)
                         => r = "Expired"
                   /\ (token = s.refresh_token /\ s.refresh_token_expires_at > now)
                         => r = "Ok"
    /\ (last.op = "refresh" /\ last.kind = "Expired")
          => \E s \in sessions :
                s.id = last.session_id /\ s.refresh_token_expires_at <= now

\* C14: refresh_session returns BadCredentials when no session has the id or
\* the presented token differs from the stored refresh token, expired or not,
\* and Expired when the token matches and refresh_token_expires_at <= now; a
\* call gets past these checks only with the stored refresh token before its
\* expiry, and the tokens of a row change only at the commit of such a call.
C14_RefreshOutcomes ==
    [][/\ RefreshOutcomes /\ RefreshOutcomes'
       /\ \A session_id \in SessionIds, token \in Tokens :
             /\ RefreshReject(session_id, token)
                   => /\ last'.kind \in {"BadCredentials", "Expired"}
                      /\ UNCHANGED <<sessions, tx, nextTok>>
             /\ RefreshGenerate(2, session_id, token)
                   => \E s \in sessions :
                         /\ s.id = session_id /\ s.refresh_token = token
                         /\ now < s.refresh_token_expires_at
       /\ (\E s \in sessions, t \in sessions' :
              /\ s.id = t.id
              /\ <<s.refresh_token, s.access_token>> # <<t.refresh_token, t.access_token>>)
             => RefreshCommit(2)]_vars

\* A refresh with the stored token at the very instant it expires has just
\* returned Expired, while a wrong token for the same session gets
\* BadCredentials.
C14_Witness ==
    /\ last.op = "refresh" /\ last.kind = "Expired"
    /\ \E s \in sessions :
          /\ s.id = last.session_id /\ s.refresh_token_expires_at = now
          /\ refresh_session_check(s.id, s.access_token) = "BadCredentials"

\* The refresh_session calls on session_id that returned a TokenExchange.
SuccessfulRefreshes(session_id) ==
    {x \in RefreshResults : x.kind = "Ok" /\ x.session_id = session_id}

\* C15: the refresh_counter of every session is 1 plus the number of
\* refresh_session calls on it that have returned success: 1 when login has
\* created it, one more with each success, never less, and unchanged by
\* resolve, by a refresh that failed, by logins and by logouts of other
\* sessions.
C15_CounterCountsRefreshes ==
    /\ \A s \in sessions :
          s.refresh_counter = 1 + Cardinality(SuccessfulRefreshes(s.id))
    /\ \A p \in Procs : \A s \in tx[p].sess_ins : s.refresh_counter = 1
    /\ \A x \in RefreshResults :
          x.kind = "Ok"
          => x.counter = Cardinality({y \in SuccessfulRefreshes(x.session_id) :
                                         y.counter <= x.counter})

\* A session has been refreshed twice while another session was logged out,
\* and a resolve has just returned.
C15_Witness ==
    /\ \E s \in sessions : s.refresh_counter = 3
    /\ \E r \in removed : r.by = "logout"
    /\ last.op = "resolve"

\* C16: once a session has been deleted, by logout or by the trim of a login,
\* its id has no row again, committed or pending; every resolve_session for
\* the id returns TokenNotFound whatever the token; and no refresh_session
\* for the id gets to its commit: it returns BadCredentials, or Interrupted
\* when it had read the row before the deletion.
C16_RemovedIsAbsorbing ==
    \A r \in removed :
        /\ \A s \in sessions : s.id # r.session_id
        /\ \A p \in Procs :
              /\ \A s \in tx[p].sess_ins \cup tx[p].sess_upd : s.id # r.session_id
              /\ pc[p] = "refresh_commit" => local[p].session_id # r.session_id
        /\ \A token \in Tokens :
              /\ resolve_session(r.session_id, token).kind = "TokenNotFound"
              /\ refresh_session_check(r.session_id, token) = "BadCredentials"
        /\ last.session_id = r.session_id
              => /\ last.op = "resolve" => last.kind = "TokenNotFound"
                 /\ last.op = "refresh" => last.kind = "BadCredentials"

\* One session was removed by a trim and one by logout; a refresh that had
\* read its row before the removal was interrupted, and a resolve for a
\* removed id has just returned TokenNotFound.
C16_Witness ==
    /\ \E r \in removed : r.by = "trim"
    /\ \E r \in removed : r.by = "logout"
    /\ \E r \in removed, x \in RefreshResults :
          x.kind = "Interrupted" /\ x.session_id = r.session_id
    /\ last.op = "resolve" /\ last.kind = "TokenNotFound"
    /\ Removed(last.session_id)

\* C17: no two users have the same alias, in the table and among the rows
\* invite_user calls have inserted but not yet committed; of two calls with
\* the same alias running at once at most one creates a user.
C17_AliasUnique ==
    LET pending == UNION {tx[p].user_ins : p \in Procs}
    IN \A u \in users \cup pending, v \in users \cup pending :
          u.alias = v.alias => u = v

\* Two invitations with the same alias were made: one created the user, the
\* other drew an id and failed on the alias.
C17_Witness ==
    \E u \in users, x \in InviteResults, y \in InviteResults :
        /\ u.alias = "user_c" /\ x.kind = "Ok" /\ x.user_id = u.id
        /\ y.kind = "Sqlx" /\ y.chat_id = None /\ y.user_id > u.id

\* The errors of RequestError::Validation.
ValidationErrors ==
    {"InvalidInput", "LimitExceeded", "InsufficientPermissions", "AlreadyExists",
     "NotFound"}

\* C18: invite_user with an alias that is already taken fails with a
\* validation error and creates no user, chat or membership.
C18_TakenAliasIsValidationError ==
    [][\A p \in Procs, caller \in UserIds, request \in InviteRequestsAll :
          (InviteCreateUser(p, caller, request) /\ alias_taken(users, request.alias))
          => /\ \A x \in returned' \ returned : x.kind \in ValidationErrors
             /\ UNCHANGED <<users, chats, chats_members, tx>>]_vars

----------------------------------------------------------------------------
(* Properties of the token codec *)

\* C19: unpacking a packed pair gives the pair back, for every session id and
\* every token, the empty one included; unpacking fails exactly when the
\* buffer is shorter than 16 bytes, and a buffer of exactly 16 bytes unpacks
\* to the id with an empty token.
C19_PackRoundTrip ==
    /\ sid_len = 16
    /\ \A session_id \in PackIds, token \in PackTokens :
          unpack_session_id_and_token(pack_session_id_and_token(session_id, token))
              = [kind |-> "Some", session_id |-> session_id, token |-> token]
    /\ last.op = "pack" => Len(last.packed) = 16 + Len(last.token)
    /\ last.op = "unpack"
          => /\ last.kind = "None" <=> Len(last.packed) < 16
             /\ Len(last.packed) = 16
                   => (last.kind = "Some" /\ last.uuid = last.packed /\ last.token = <<>>)
             /\ last.kind = "Some"
                   => pack_session_id_and_token(last.uuid, last.token) = last.packed

\* A buffer of exactly 16 bytes, not all of them zero, has just been
\* unpacked to its id and the empty token.
C19_Witness ==
    /\ last.op = "unpack" /\ last.kind = "Some"
    /\ Len(last.packed) = 16 /\ last.token = <<>>
    /\ last.uuid \in PackIds \ {as_bytes(0)}

----------------------------------------------------------------------------
(* Properties of the expiries *)

\* Every row stores the expiries the call that wrote its tokens returned, and
\* no access token that was handed out resolves at or after its expiry.
ExpiriesAsIssued ==
    /\ \A s \in sessions : \E x \in Issued :
          /\ x.session_id = s.id /\ x.access_token = s.access_token
          /\ x.refresh_token = s.refresh_token
          /\ x.access_token_expires_at = s.access_token_expires_at
          /\ x.refresh_token_expires_at = s.refresh_token_expires_at
    /\ \A x \in Issued :
          /\ x.refresh_token_expires_at - x.access_token_expires_at
                = REFRESH_TOKEN_TTL - ACCESS_TOKEN_TTL
          /\ now >= x.access_token_expires_at
                => resolve_session(x.session_id, x.access_token).kind # "Ok"

\* C20: login and refresh_session take the time when they run and give the
\* tokens they store the expiries now + 2 hours (access) and now + 14 days
\* (refresh); the row and the returned payload carry those values; an access
\* token does not resolve from 2 hours after its issuance on; and a
\* successful refresh moves both expiries forward by the time that has
\* passed since the tokens it replaces were issued.
C20_ExpiriesFromNow ==
    [][/\ ExpiriesAsIssued /\ ExpiriesAsIssued'
       /\ LoginCreateSession(1, "user_a", "passfora")
             => /\ local'[1].access_token_expires_at = now + 2
                /\ local'[1].refresh_token_expires_at = now + 14 * 24
                /\ \A s \in tx'[1].sess_ins :
                      /\ s.access_token_expires_at = now + 2
                      /\ s.refresh_token_expires_at = now + 14 * 24
       /\ \A session_id \in SessionIds, token \in Tokens :
             RefreshGenerate(2, session_id, token)
             => /\ local'[2].access_token_expires_at = now + 2
                /\ local'[2].refresh_token_expires_at = now + 14 * 24
       /\ RefreshCommit(2)
             => \A s \in sessions, t \in sessions' :
                   (s.id = local[2].session_id /\ t.id = s.id)
                   => /\ t.access_token_expires_at = local[2].access_token_expires_at
                      /\ t.refresh_token_expires_at = local[2].refresh_token_expires_at
                      /\ t.access_token_expires_at >= s.access_token_expires_at
                      /\ t.access_token_expires_at - s.access_token_expires_at
                            = t.refresh_token_expires_at - s.refresh_token_expires_at]_vars

\* A refresh made two hours after the login has moved both expiries of the
\* row forward by two hours, and the login's access token, presented at its
\* expiry instant, has just been refused.
C20_Witness ==
    /\ last.op = "resolve" /\ last.kind # "Ok"
    /\ \E x \in Issued, y \in Issued, s \in sessions :
          /\ x.op = "login" /\ y.op = "refresh"
          /\ x.session_id = s.id /\ y.session_id = s.id /\ last.session_id = s.id
          /\ now = x.access_token_expires_at
          /\ s.access_token_expires_at = x.access_token_expires_at + ACCESS_TOKEN_TTL
          /\ s.refresh_token_expires_at = x.refresh_token_expires_at + ACCESS_TOKEN_TTL

----------------------------------------------------------------------------
(* Properties of send_message *)

\* The texts validate_message_text refuses.
BadTexts == {text \in Texts : Len(Trim(text)) = 0 \/ Len(text) > 4096}

----------------------------------------------------------------------------
(* Properties of create_private_chat *)

\* No user has the alias.
NoUserHas(alias) == \A u \in users : u.alias # alias

----------------------------------------------------------------------------
(* Properties of ListingMode::from_query *)

\* C23: from_query validates limit first (100 when absent; below 1
\* InvalidInput carrying the limit, above 200 LimitExceeded); then with an
\* offset it gives InvalidInput "page" when page is given too, InvalidInput
\* when offset < 0 and Offset{offset, limit} otherwise; without an offset it
\* gives Page{limit, page}, page 1 when absent, InvalidInput when page < 1.
C23_FromQuery ==
    last.op = "from_query" =>
        LET q == last.query
            mode == last.mode
            limit == IF q.limit = <<>> THEN 100 ELSE q.limit[1]
            page == IF q.page = <<>> THEN 1 ELSE q.page[1]
        IN  /\ to_string(-1) = "-1" /\ to_string(0) = "0" /\ to_string(201) = "201"
            /\ IF limit < 1
                  THEN mode.kind = "InvalidInput" /\ mode.value = to_string(limit)
               ELSE IF limit > 200 THEN mode.kind = "LimitExceeded"
               ELSE IF q.offset # <<>>
                  THEN IF q.page # <<>>
                          THEN mode.kind = "InvalidInput" /\ mode.value = "page"
                       ELSE IF q.offset[1] < 0
                          THEN /\ mode.kind = "InvalidInput"
                               /\ mode.value = to_string(q.offset[1])
                       ELSE /\ mode.kind = "Offset"
                            /\ mode.offset = q.offset[1] /\ mode.limit = limit
               ELSE IF page < 1
                  THEN mode.kind = "InvalidInput" /\ mode.value = to_string(page)
               ELSE mode.kind = "Page" /\ mode.limit = limit /\ mode.page = page

\* A query with a limit below 1, a page and an offset has just been
\* refused for its limit.
C23_Witness ==
    /\ last.op = "from_query"
    /\ last.query = [limit |-> <<0>>, page |-> <<2>>, offset |-> <<42>>]
    /\ last.mode.kind = "InvalidInput" /\ last.mode.value = "0"

----------------------------------------------------------------------------
(* Properties of list_messages *)

\* The ids of a listing, as a set.
Listed(listing) == {listing[i] : i \in 1 .. Len(listing)}

\* C24 (as stated): the listing of a chat is ordered as the send_message
\* calls completed: of two messages of one chat, the one whose call returned
\* first is listed first.
C24_Original ==
    \A x \in Sent, y \in Sent :
        (x.chat_id = y.chat_id /\ x.message_id \in y.completed_after)
        => x.message_id < y.message_id

\* C24 (amended): list_messages returns to every member of a chat the same
\* sequence, that chat's committed messages in ascending message id,
\* whichever member sent each; every message whose send_message has returned
\* is in it and none of another chat is; of two calls that do not overlap,
\* the one that returned before the other began is listed first.
C24_SameAscendingListing ==
    \A chat_id \in ChatIds, a \in UserIds, b \in UserIds :
        (is_user_in_chat(chat_id, a) /\ is_user_in_chat(chat_id, b))
        => LET listing == list_messages(a, chat_id, 100, 1) IN
           /\ listing.kind = "Ok"
           /\ listing = list_messages(b, chat_id, 100, 1)
           /\ \A i \in 1 .. Len(listing.messages), j \in 1 .. Len(listing.messages) :
                 i < j => listing.messages[i] < listing.messages[j]
           /\ \A id \in Listed(listing.messages) :
                 \E m \in messages : m.id = id /\ m.chat_id = chat_id
           /\ \A x \in Sent : x.chat_id = chat_id
                 => x.message_id \in Listed(listing.messages)
           /\ \A x \in Sent, y \in Sent :
                 (x.chat_id = chat_id /\ y.chat_id = chat_id
                    /\ x.message_id \in y.began_after)
                 => x.message_id < y.message_id

\* user_b has just listed the private chat, which holds a message of each
\* member, sent by calls that did not overlap.
C24_Witness ==
    /\ last.op = "list_messages" /\ last.kind = "Ok" /\ last.user_id = 3
    /\ \E x \in Sent, y \in Sent :
          /\ x.chat_id = last.chat_id /\ y.chat_id = last.chat_id
          /\ x.user_id = 2 /\ y.user_id = 3
          /\ x.message_id \in y.began_after
          /\ list_messages(3, last.chat_id, 100, 1).messages
                = <<x.message_id, y.message_id>>

----------------------------------------------------------------------------
(* Frame properties of the session store *)

\* C25: update_session_tokens(session_id, ..., expected_counter) updates
\* exactly when a row with that id has refresh_counter = expected_counter:
\* then it writes the four token fields and refresh_counter =
\* expected_counter + 1 to that row and to no other; when the counter differs
\* or the row is absent it updates nothing (the caller returns Interrupted)
\* and every session row stays as it was.
C25_UpdateIffCounterMatches ==
    [][\A p \in Procs :
          /\ RefreshUpdate(p)
                => LET l == local[p]
                       hit == {s \in sessions : s.id = l.session_id
                                                 /\ s.refresh_counter = l.counter}
                   IN /\ sessions' = sessions
                      /\ IF hit # {}
                         THEN /\ pc'[p] = "refresh_commit"
                              /\ tx'[p].sess_upd =
                                   {[s EXCEPT
                                       !.refresh_token = l.refresh_token,
                                       !.refresh_token_expires_at = l.refresh_token_expires_at,
                                       !.access_token = l.access_token,
                                       !.access_token_expires_at = l.access_token_expires_at,
                                       !.refresh_counter = l.counter + 1] : s \in hit}
                              /\ Cardinality(hit) = 1
                         ELSE /\ pc'[p] = "idle" /\ tx'[p] = EmptyTx
                              /\ Interrupted(l) \in returned'
          /\ RefreshCommit(p)
                => /\ sessions' \ sessions = tx[p].sess_upd
                   /\ sessions \ sessions' = {s \in sessions : s.id = local[p].session_id}
                   /\ \A t \in tx[p].sess_upd :
                         t.refresh_counter = local[p].counter + 1]_vars

\* An update found the row at another counter and wrote nothing: the call
\* returned Interrupted, and the row holds what the call that moved the
\* counter wrote.
C25_Witness ==
    \E x \in RefreshResults, s \in sessions :
        /\ x.kind = "Interrupted" /\ s.id = x.session_id
        /\ s.refresh_counter = x.counter + 1
        /\ s.refresh_token # x.refresh_token /\ s.access_token # x.access_token

\* C26: a refresh_session call that returns an error leaves the session as
\* it is and present: a refused token (BadCredentials, Expired) is answered
\* without a write, and an Interrupted call has written nothing and holds
\* nothing uncommitted; an expired or a rotated-out refresh token neither
\* deletes nor revokes the session.
C26_FailedRefreshChangesNothing ==
    [][/\ \A session_id \in SessionIds, token \in Tokens :
             RefreshReject(session_id, token)
             => /\ sessions' = sessions /\ tx' = tx
                /\ last'.kind \in {"BadCredentials", "Expired"}
                /\ (\E r \in rotated : r.session_id = session_id
                                         /\ r.refresh_token = token)
                      => /\ last'.kind = "BadCredentials"
                         /\ \E s \in sessions' : s.id = session_id
       /\ \A p \in Procs :
             (RefreshUpdate(p) /\ Interrupted(local[p]) \in returned')
             => /\ sessions' = sessions /\ tx'[p] = EmptyTx
                /\ \E s \in sessions' : s.id = local[p].session_id]_vars

\* The refresh token of a session that was refreshed once, against a second
\* call that got Interrupted, has just been refused as Expired; the session
\* is there with its counter at 2.
C26_Witness ==
    /\ last.op = "refresh" /\ last.kind = "Expired"
    /\ \E s \in sessions :
          /\ s.id = last.session_id /\ s.refresh_counter = 2
          /\ s.refresh_token_expires_at <= current_time
    /\ \E x \in RefreshResults :
          x.kind = "Interrupted" /\ x.session_id = last.session_id

----------------------------------------------------------------------------
(* Properties of private chats beside group chats *)

\* C27: create_private_chat(a, alias_of(b)) returns AlreadyExists only when
\* a chat of kind Private with both a and b as members exists; their being
\* co-members of a chat of another kind does not stop the Private chat from
\* being created.
C27_AlreadyExistsOnlyForPrivate ==
    [][\A a \in UserIds, b \in UserIds :
          (a # b /\ PrivateChatReject(a, alias_of(b)) /\ last'.kind = "AlreadyExists")
          => PrivateChatsOf(a, b) # {}]_vars

\* C28: in every reachable state at most one Private chat has both a and b
\* as members, for every pair of distinct users, also when two
\* create_private_chat calls for the pair run concurrently.
C28_AtMostOnePrivateChat ==
    \A a \in UserIds, b \in UserIds :
        a # b => Cardinality(PrivateChatsOf(a, b)) <= 1

----------------------------------------------------------------------------
(* Frame properties of resolve_session and refresh_session *)

\* C29: resolve_session is read-only: whatever it answers (the user id,
\* TokenNotFound, TokenExpired) it changes no session row and removes none,
\* so the row of an expired session is still there after the answer; a row
\* goes only by logout or by the trim of a login.
C29_ResolveReadOnly ==
    [][/\ \A session_id \in SessionIds, token \in Tokens :
             Resolve(session_id, token)
             => /\ sessions' = sessions /\ tx' = tx /\ removed' = removed
                /\ last'.kind \in {"Ok", "TokenNotFound", "TokenExpired"}
                /\ last'.kind = "TokenExpired"
                      => \E s \in sessions' :
                            /\ s.id = session_id
                            /\ s.access_token_expires_at <= current_time
       /\ \A s \in sessions :
             (\A t \in sessions' : t.id # s.id)
             => \E r \in removed' \ removed :
                   r.session_id = s.id /\ r.by \in {"logout", "trim"}]_vars

\* A session's access token has just been answered TokenExpired, and the
\* row is there with that token and its refresh token still unexpired.
C29_Witness ==
    /\ last.op = "resolve" /\ last.kind = "TokenExpired"
    /\ \E s \in sessions :
          /\ s.id = last.session_id
          /\ s.access_token_expires_at <= current_time
          /\ current_time < s.refresh_token_expires_at

\* C30: a successful refresh_session on session s changes only s's
\* refresh_token, refresh_token_expires_at, access_token,
\* access_token_expires_at and refresh_counter: s keeps its id, user_id and
\* audit fields, and every other session, of the same or of another user,
\* is unchanged and its tokens resolve and refresh as before.
C30_RefreshChangesOnlyItsSession ==
    [][RefreshCommit(2)
       => \A l \in {local[2]} :
            /\ \A s \in sessions :
                  s.id # l.session_id
                  => /\ s \in sessions'
                     /\ resolve_session(s.id, s.access_token)'
                           = resolve_session(s.id, s.access_token)
                     /\ refresh_session_check(s.id, s.refresh_token)'
                           = refresh_session_check(s.id, s.refresh_token)
            /\ \A s \in sessions :
                  s.id = l.session_id
                  => /\ s.refresh_counter = l.counter
                     /\ [s EXCEPT !.refresh_token = l.refresh_token,
                                  !.refresh_token_expires_at = l.refresh_token_expires_at,
                                  !.access_token = l.access_token,
                                  !.access_token_expires_at = l.access_token_expires_at,
                                  !.refresh_counter = s.refresh_counter + 1]
                           \in sessions'
            /\ Cardinality(sessions') = Cardinality(sessions)
            /\ \E s \in sessions : s.id = l.session_id]_vars

\* A session has been refreshed while a session of the other user, never
\* refreshed, is there and its access token resolves.
C30_Witness ==
    \E x \in RefreshResults, s \in sessions, t \in sessions :
        /\ x.kind = "Ok" /\ s.id = x.session_id /\ s.refresh_counter = 2
        /\ s.first_seen_at = 0 /\ s.ip = "127.0.0.1"
        /\ t.user_id # s.user_id /\ t.refresh_counter = 1
        /\ resolve_session(t.id, t.access_token) = [kind |-> "Ok", user_id |-> t.user_id]

----------------------------------------------------------------------------
(* Frame properties of login and logout *)

\* C31: a login by user u never removes or modifies a session of another
\* user v: the trim picks rows with user_id = u only, and the commit leaves
\* every row of another user in the table as it was, however many there are.
C31_LoginKeepsOtherUsers ==
    [][\A p \in Procs :
          /\ (LoginTrim(p) \/ LoginTrimResume(p))
                => \A l \in {local[p]} :
                     \A id \in tx'[p].sess_del \cup local'[p].targets :
                        \A s \in SessionsView(p) : s.id = id => s.user_id = l.user_id
          /\ LoginCommit(p)
                => \A s \in sessions : s.user_id # local[p].user_id => s \in sessions']_vars

\* A login of one user has trimmed a session of that user while a session
\* of the other user is there.
C31_Witness ==
    \E r \in removed, x \in returned, s \in sessions :
        /\ r.by = "trim" /\ x.op = "login" /\ x.session_id = r.session_id
        /\ s.user_id # x.user_id

\* C32: logout(session_id) removes exactly the session with that id: every
\* other session, also of the same user, stays as it was, and its access
\* token resolves and its refresh token is accepted as before.
C32_LogoutRemovesOnlyItsSession ==
    [][\A session_id \in {last'.session_id} :
          Logout(session_id)
          => /\ sessions' = {s \in sessions : s.id # session_id}
             /\ \A s \in sessions :
                   s.id # session_id
                   => /\ resolve_session(s.id, s.access_token)'
                            = resolve_session(s.id, s.access_token)
                      /\ refresh_session_check(s.id, s.refresh_token)'
                            = refresh_session_check(s.id, s.refresh_token)]_vars

\* One of two sessions of a user has been logged out; the other is there and
\* both its tokens are good.
C32_Witness ==
    \E r \in removed, x \in returned, s \in sessions :
        /\ r.by = "logout" /\ x.op = "login" /\ x.session_id = r.session_id
        /\ s.user_id = x.user_id /\ s.id # x.session_id
        /\ resolve_session(s.id, s.access_token).kind = "Ok"
        /\ refresh_session_check(s.id, s.refresh_token) = "Ok"

\* C33: the session a login has created is never among the sessions that
\* login's own trim deletes, also when the user held the cap of sessions
\* already and some of them have the same access_token_expires_at.
C33_TrimSparesOwnSession ==
    [][\A p \in Procs :
          (LoginTrim(p) \/ LoginTrimResume(p))
          => local[p].session_id \notin tx'[p].sess_del \cup local'[p].targets]_vars

----------------------------------------------------------------------------
(* refresh_session beside logout and trim *)

\* C34: when refresh_session(s) runs beside logout(s) or a login whose trim
\* evicts s, s is absent once both have completed and the tokens the refresh
\* returned do not resolve; a refresh whose update runs after the deletion
\* is Interrupted, and no refresh commits a row for a deleted session.
C34_RefreshBesideRemoval ==
    [][/\ (RefreshUpdate(2) /\ Removed(local[2].session_id))
             => /\ Interrupted(local[2]) \in returned'
                /\ sessions' = sessions /\ tx'[2] = EmptyTx
       /\ RefreshCommit(2)
             => /\ ~Removed(local[2].session_id)
                /\ \E s \in sessions : s.id = local[2].session_id
                /\ Cardinality(sessions') = Cardinality(sessions)
       /\ \A r \in removed' \ removed :
             /\ \A s \in sessions' : s.id # r.session_id
             /\ \A s \in tx'[2].sess_upd : s.id # r.session_id
             /\ \A x \in RefreshResults :
                   x.session_id = r.session_id
                   => resolve_session(x.session_id, x.access_token)'.kind
                         = "TokenNotFound"]_vars

\* A refresh that had read its row before the trim of a login evicted the
\* session was Interrupted, and a refresh of another session committed
\* before that session was logged out.
C34_Witness ==
    \E x \in RefreshResults, y \in RefreshResults, r \in removed, q \in removed :
        /\ x.kind = "Ok" /\ r.session_id = x.session_id /\ r.by = "logout"
        /\ y.kind = "Interrupted" /\ q.session_id = y.session_id /\ q.by = "trim"

----------------------------------------------------------------------------
(* Invariants of chats and members *)

\* The membership rows of a chat.
MembersOf(chat_id) == {m \in chats_members : m.chat_id = chat_id}

\* C35: in every reachable state every WithSelf chat has exactly one member,
\* its Owner, and every Private chat has exactly two distinct members, both
\* with role Member.
C35_ChatShapes ==
    \A c \in chats :
        /\ c.kind = "WithSelf"
              => /\ Cardinality(MembersOf(c.id)) = 1
                 /\ \A m \in MembersOf(c.id) : m.role = "Owner"
        /\ c.kind = "Private"
              => /\ Cardinality({m.user_id : m \in MembersOf(c.id)}) = 2
                 /\ Cardinality(MembersOf(c.id)) = 2
                 /\ \A m \in MembersOf(c.id) : m.role = "Member"

\* C36: add_members_to_group_chat is all-or-nothing: a caller who is not in
\* the chat gets NotFound and nobody is added; when an insert fails (the
\* user is a member already, is listed twice or does not exist) none of the
\* listed users is added; on success every listed user but the caller
\* becomes a Member, and the memberships there were, the caller's with its
\* role among them, stay as they are.
C36_AddMembersAllOrNothing ==
    [][/\ \A caller \in {2, 3}, chat_id \in {1, 3}, members \in {<<2, 3>>, <<1, 9>>} :
             AddMembersReject(caller, chat_id, members)
             => last'.kind = "NotFound" /\ chats_members' = chats_members
       /\ \A p \in Procs :
             /\ AddMemberInsert(p)
                   => /\ chats_members' = chats_members
                      /\ pc'[p] = "idle" => tx'[p] = EmptyTx
             /\ AddMembersCommit(p)
                   => \A l \in {local[p]} :
                        /\ chats_members \subseteq chats_members'
                        /\ chats_members' \ chats_members =
                              {add_member_to_chat(u, l.chat_id, "Member") :
                                  u \in l.targets \ {l.caller}}
                        /\ \A u \in l.targets \ {l.caller} :
                              ~is_user_in_chat(l.chat_id, u)]_vars

\* In one group a call that listed two users has added both, and a call
\* that listed a user beside one that does not exist has failed and added
\* neither.
C36_Witness ==
    \E x \in returned, y \in returned :
        /\ x.op = "add_members_to_group_chat" /\ x.kind = "Ok"
        /\ Cardinality(x.members \ {x.user_id}) = 2
        /\ \A u \in x.members : is_user_in_chat(x.chat_id, u)
        /\ y.op = "add_members_to_group_chat" /\ y.kind = "Sqlx"
        /\ y.chat_id = x.chat_id

\* Every user but the origin user was invited by an existing Admin; the
\* origin user by nobody.
InvitedByAdmins ==
    \A u \in users :
        IF u.id = 1 THEN u.invited_by = None
        ELSE \E v \in users : v.id = u.invited_by /\ v.role = "Admin"

\* C37: in every reachable state every user other than the origin user has
\* invited_by set to the id of an existing user whose role is Admin; a
\* Regular user never appears as an inviter, and no operation changes a
\* user's role (or removes a user).
C37_InvitedByAdmins ==
    [][/\ InvitedByAdmins /\ InvitedByAdmins'
       /\ \A u \in users : u \in users'
       /\ \A p \in Procs : \A u \in tx'[p].user_ins :
             \E v \in users : v.id = u.invited_by /\ v.role = "Admin"]_vars

\* An Admin invited by the origin user has invited a user, and a Regular
\* user has just been refused.
C37_Witness ==
    /\ \E u \in users, v \in users :
          u.invited_by = v.id /\ v.id # 1 /\ v.role = "Admin" /\ v.invited_by = 1
    /\ last.op = "invite_user" /\ last.kind = "InsufficientPermissions"
    /\ last.current = "Regular"

\* Chat chat_id has no row in chats or chats_members, committed or written
\* by an open transaction.
NoTraceOf(chat_id) ==
    /\ \A c \in chats : c.id # chat_id
    /\ \A m \in chats_members : m.chat_id # chat_id
    /\ \A p \in Procs :
          /\ \A c \in tx[p].chat_ins : c.id # chat_id
          /\ \A m \in tx[p].member_ins : m.chat_id # chat_id

\* C38: create_private_chat called with the caller's own alias as recipient
\* never succeeds and leaves no trace: the call fails with Sqlx, and neither
\* the chat row it inserted nor a membership row of that chat is in the
\* tables or in an open transaction afterwards.
C38_OwnAliasLeavesNoTrace ==
    [][\A u \in users, p \in Procs : \A caller \in {u.id} :
          PrivateChatCreate(p, caller, u.alias)
          => /\ Failed("create_private_chat", "Sqlx", caller, chat_seq) \in returned'
             /\ chats' = chats /\ chats_members' = chats_members
             /\ tx' = tx /\ pc' = pc
             /\ NoTraceOf(chat_seq)']_vars

\* user_a's call with alias user_a has failed and its chat id is absent,
\* while a later private chat of user_a and user_b is there.
C38_Witness ==
    \E r \in returned :
        /\ r = Failed("create_private_chat", "Sqlx", 2, r.chat_id)
        /\ NoTraceOf(r.chat_id)
        /\ \E c \in chats : c.kind = "Private" /\ c.id > r.chat_id

\* Session s has an expired access token and a refresh token still good.
AccessExpiredOnly(s) ==
    /\ s.access_token_expires_at <= current_time
    /\ s.refresh_token_expires_at > current_time

\* Every present session with only its access token expired passes the
\* checks of refresh_session with its current refresh token.
ExpiredAccessRefreshable ==
    \A s \in sessions :
        AccessExpiredOnly(s) => refresh_session_check(s.id, s.refresh_token) = "Ok"

\* The refresh_session call with locals l generated its tokens for session s
\* when the access token of s had expired.
BegunAfterAccessExpiry(s, l) ==
    /\ s.id = l.session_id
    /\ s.access_token_expires_at <= l.access_token_expires_at - ACCESS_TOKEN_TTL

\* C39: refresh_session does not depend on the access token's expiry: for a
\* present session whose access token has expired but whose refresh token
\* has not, a refresh presenting the current refresh token, with no
\* concurrent refresh or removal of that session, passes the checks, updates
\* the row and commits, and the access token it returns then (within its
\* own time to live) resolves to the session's user.
C39_RefreshAfterAccessExpiry ==
    [][/\ ExpiredAccessRefreshable /\ ExpiredAccessRefreshable'
       /\ \A s \in sessions, l \in {local[2]} :
             BegunAfterAccessExpiry(s, l)
             => /\ RefreshUpdate(2) => pc'[2] = "refresh_commit"
                /\ (RefreshCommit(2) /\ l.access_token_expires_at > current_time)
                   => /\ TokenExchangePayload("refresh", l) \in returned'
                      /\ resolve_session(l.session_id, l.access_token)'
                             = [kind |-> "Ok", user_id |-> s.user_id]]_vars

\* A session was refreshed at or after the expiry of the access token its
\* login returned and before the expiry of its refresh token, and the new
\* access token has just resolved.
C39_Witness ==
    \E x \in returned, y \in returned :
        /\ x.op = "login" /\ x.kind = "Ok" /\ y.op = "refresh" /\ y.kind = "Ok"
        /\ x.session_id = y.session_id
        /\ y.access_token_expires_at - ACCESS_TOKEN_TTL >= x.access_token_expires_at
        /\ y.refresh_token_expires_at - REFRESH_TOKEN_TTL < x.refresh_token_expires_at
        /\ last.op = "resolve" /\ last.kind = "Ok"
        /\ last.session_id = y.session_id /\ last.user_id = y.user_id

\* Every committed chat has a membership, and every committed membership a
\* committed chat and a committed user.
ChatsAndMembersTogether ==
    /\ \A c \in chats : \E m \in chats_members : m.chat_id = c.id
    /\ \A m \in chats_members :
          /\ \E c \in chats : c.id = m.chat_id
          /\ \E u \in users : u.id = m.user_id

\* The initial memberships of a chat of kind kind with id chat_id are there.
InitialMembers(kind, chat_id) ==
    CASE kind = "WithSelf" ->
             \E m \in chats_members : m.chat_id = chat_id /\ m.role = "Owner"
      [] kind = "Private" ->
             Cardinality({m \in chats_members : m.chat_id = chat_id /\ m.role = "Member"}) = 2
      [] kind = "Group" ->
             \E m \in chats_members : m.chat_id = chat_id /\ m.role = "Owner"
      [] OTHER -> FALSE

\* C40: in every observable state every chat row has at least one
\* membership row and every membership row refers to an existing chat and
\* an existing user; a step that makes a chat row visible makes its initial
\* memberships (WithSelf at invite, Private, Group) visible with it.
C40_ChatsAndMembersTogether ==
    [][/\ ChatsAndMembersTogether /\ ChatsAndMembersTogether'
       /\ \A c \in chats' \ chats : InitialMembers(c.kind, c.id)']_vars

\* A Private chat and a Group chat have become visible with their
\* memberships, while the transaction of an invitation holds a WithSelf chat
\* and its membership, neither of them visible yet.
C40_Witness ==
    /\ \E c \in chats : c.kind = "Private" /\ InitialMembers(c.kind, c.id)
    /\ \E c \in chats : c.kind = "Group" /\ InitialMembers(c.kind, c.id)
    /\ \E p \in Procs : \E c \in tx[p].chat_ins :
          /\ c.kind = "WithSelf" /\ c \notin chats
          /\ \E m \in tx[p].member_ins : m.chat_id = c.id /\ m \notin chats_members

====
